---- MODULE Spec2Model ----
(***************************************************************************)
(* Model of the fundamentals aggregation core of OpenStock:                *)
(*   lib/yahoo/session.ts         session manager (single-flight refresh)  *)
(*   lib/yahoo/fundamentals.ts    scraped-provider fundamentals fetch      *)
(*   lib/services/fundamentals.ts fallback orchestrator and merge          *)
(*   lib/cache.ts                 optional Redis cache                     *)
(*                                                                         *)
(* JavaScript runs one task at a time: a step of the model is the code     *)
(* that runs between two awaits of real I/O (a network reply, a Redis      *)
(* reply). Promise continuations that need no I/O run in the same step as  *)
(* the event that settles the promise. A Redis command takes effect in the *)
(* step that delivers its reply. Redis commands succeed in every           *)
(* specification but SpecOutage.                                           *)
(*                                                                         *)
(* Numbers that are fractions in the program (yields, ratios) are integers *)
(* in units of 1/Scale.                                                    *)
(*                                                                         *)
(* Specifications:                                                         *)
(*   Spec          tasks calling getYahooSession and invalidateYahooSession,*)
(*                 with the clock advancing past the session TTL           *)
(*   SpecFund      tasks calling fetchYahooFundamentals                    *)
(*   SpecFallback  tasks calling fetchFundamentalsWithFallback             *)
(*   SpecFundCache one task calling fetchYahooFundamentals while the clock *)
(*                 advances by half the fundamentals TTL at a time         *)
(*   SpecMerge     evaluations of mergeSupplementalMetrics                 *)
(*   SpecClassify  performQuoteSummaryRequest classifying a response       *)
(*   SpecRoe       computeStatementDerivedMetrics computing roeActual      *)
(*   SpecStatements statement entries, growth histories, CAGR, ratios      *)
(*   SpecTimeout   one fetchWithTimeout request and its timer              *)
(*   SpecRefresh   one fetchYahooSession refresh                           *)
(*   SpecOutage    session and fundamentals calls with Redis failing       *)
(*   SpecTiingo    fetchFromTiingo and its three requests                  *)
(*   SpecApproximate deriveTiingoMetrics, the clamped approximations       *)
(*   SpecRateLimit checkRateLimit                                          *)
(*   SpecFundThenSession fetchYahooFundamentals calls, then getYahooSession*)
(*   SpecMergeFrame mergeSupplementalMetrics on whole results              *)
(*   SpecChart     the dividend-history and price-history fetches          *)
(*   SpecLive      the three entry points with every reply arriving        *)
(* In SpecFund and SpecFallback the clock stands still: the calls they     *)
(* follow last seconds, the TTLs are 15 minutes and 12 hours.              *)
(***************************************************************************)
EXTENDS Integers, Sequences, FiniteSets, TLC

VARIABLES
  now,                    \* clock, in ticks of TickMs milliseconds
  cacheEnabled,           \* cache.ts:21, redis !== null
  tiingoKey,              \* services/fundamentals.ts:50, TIINGO_API_KEY is set
  redisSession,           \* Redis entry under SESSION_CACHE_KEY
  cachedSession,          \* session.ts:19
  cachedSessionExpiresAt, \* session.ts:20
  inFlightSession,        \* session.ts:21, 0 is null, else the id of a refresh
  refresh,                \* the promises made by fetchYahooSession().then().finally()
  nRefresh,               \* number of refreshes started so far
  fundamentalsCache,      \* yahoo/fundamentals.ts:88, the in-memory Map
  redisFund,              \* Redis entries under FUNDAMENTALS_CACHE_KEY_PREFIX + symbol
  proc,                   \* the calls in progress, one record per task
  calls,                  \* number of top-level calls issued so far
  lastIssued,             \* history: id of the session most recently issued
  disturbed,              \* history: sessions after whose issue an invalidate or a forced refresh was active
  invCount,               \* history: number of invalidateYahooSession calls completed
  pureCall                \* arguments and result of the pure function under evaluation

vars == <<now, cacheEnabled, tiingoKey, redisSession, cachedSession,
          cachedSessionExpiresAt, inFlightSession, refresh, nRefresh,
          fundamentalsCache, redisFund, proc, calls, lastIssued, disturbed,
          invCount, pureCall>>

envVars == <<cacheEnabled, tiingoKey>>
sessionVars == <<redisSession, cachedSession, cachedSessionExpiresAt,
                 inFlightSession, refresh, nRefresh>>
fundVars == <<fundamentalsCache, redisFund>>
histVars == <<lastIssued, disturbed, invCount>>

\* ------------------------------------------------------------------ bounds
MaxCalls == 3
MaxFundCalls == 2
MaxFallbackCalls == 1
MaxTicks == 3
MaxFundTicks == 2
MaxPeriods == 5
MaxSeries == 2
MaxLiveCalls == 2

Procs == {"p1", "p2"}
RefreshIds == 1 .. (MaxCalls + MaxFundCalls)
Payloads == {1, 2}

\* --------------------------------------------------------------- constants
SESSION_TTL_MS == 15 * 60 * 1000
SESSION_TTL_SECONDS == SESSION_TTL_MS \div 1000
FUNDAMENTALS_TTL_MS == 12 * 60 * 60 * 1000
FUNDAMENTALS_TTL_SECONDS == FUNDAMENTALS_TTL_MS \div 1000
TickMs == SESSION_TTL_MS \div 2
FundTick == (FUNDAMENTALS_TTL_MS \div 2) \div TickMs
NowMs == now * TickMs
Scale == 100 * 100

\* ------------------------------------------------------------------ symbols
\* A symbol is the sequence of its characters.
Whitespace == {" "}

RECURSIVE trimStart(_)
trimStart(s) == IF s # <<>> /\ Head(s) \in Whitespace THEN trimStart(Tail(s)) ELSE s

RECURSIVE trimEnd(_)
trimEnd(s) ==
  IF s # <<>> /\ s[Len(s)] \in Whitespace THEN trimEnd(SubSeq(s, 1, Len(s) - 1)) ELSE s

\* String.prototype.trim
trim(s) == trimEnd(trimStart(s))

UpperCase(c) ==
  CASE c = "a" -> "A"
    [] c = "b" -> "B"
    [] OTHER -> c

\* Mutant: the case of a symbol is left as it is.
toUpperCase_AsIs(s) == s

\* String.prototype.toUpperCase
toUpperCase(s) == [i \in 1 .. Len(s) |-> UpperCase(s[i])]

\* yahoo/fundamentals.ts:481 and services/fundamentals.ts:379,
\* symbol.trim().toUpperCase()
Normalize(symbol) == toUpperCase(trim(symbol))

\* yahoo/fundamentals.ts:297, symbol.replace(/\./g, '-')
YahooSymbol(symbol) == [i \in 1 .. Len(symbol) |-> IF symbol[i] = "." THEN "-" ELSE symbol[i]]

\* The symbols callers pass: a class share in upper case, the same in lower case
\* inside blanks, and a blank string.
RawSymbols == { <<"A", ".", "B">>, <<" ", "a", ".", "b", " ">>, <<" ", " ">> }

\* The cache keys the calls can compute.
Symbols == {Normalize(s) : s \in RawSymbols}

\* -------------------------------------------------------------- data model
\* A YahooSession. The cookie header and the crumb of a session are the ones
\* the upstream handed out in refresh number id.
NoSession == [id |-> 0, createdAt |-> 0]
YahooSession(r, t) == [id |-> r, createdAt |-> t]

NoEntry == [session |-> NoSession, expiresAt |-> 0]
\* A fundamentals cache entry; storedAt is history, the time of the write.
NoFundEntry == [data |-> 0, expiresAt |-> 0, storedAt |-> 0]

\* A refresh: where fetchYahooSession stands, the session it made, and how many
\* bootstrap and token requests it has sent.
IdleRefresh == [st |-> "idle", session |-> NoSession, epoch |-> 0, boot |-> 0, tok |-> 0]

\* An optional metric: undefined, null, a number, or an array (growth history).
Undefined == [k |-> "undefined", v |-> 0]
NullV == [k |-> "null", v |-> 0]
Num(n) == [k |-> "number", v |-> n]
Arr(n) == [k |-> "array", v |-> n]

\* services/fundamentals.ts:268-280
keysToSupplement ==
  {"dividendYield", "payoutRatio", "forwardPE", "earningsGrowth", "roeActual",
   "revenueCagr3Y", "earningsCagr3Y", "debtToEquityActual",
   "freeCashflowPayoutRatio", "revenueGrowthHistory", "earningsGrowthHistory"}

\* The metrics the model carries: the allow-list and three metrics outside it.
MetricKeys == keysToSupplement \cup {"trailingPE", "currentPrice", "marketCap"}

NoMetrics == [k \in MetricKeys |-> Undefined]

\* A NormalizedFundamentals; warnings undefined is the empty sequence.
NoResult == [symbol |-> <<>>, source |-> "none", metrics |-> NoMetrics, warnings |-> <<>>]

IdleProc ==
  [op |-> "idle", pc |-> "idle", force |-> FALSE, joined |-> 0, started |-> FALSE,
   ret |-> NoSession, err |-> FALSE, from |-> "none", retAt |-> 0, base |-> 0,
   epoch |-> 0, quiet |-> FALSE,
   input |-> <<>>, sym |-> <<>>, path |-> <<>>, optForce |-> FALSE, attempt |-> 0, start |-> 0, log |-> <<>>,
   resp |-> <<>>, data |-> 0, errKind |-> "none", wrote |-> 0,
   stage |-> "none", tiingo |-> NoResult, result |-> NoResult, errors |-> <<>>,
   yahooErr |-> "none",
   fresh |-> FALSE, hitSrc |-> "none", hitStored |-> 0, hitAt |-> 0]

\* ------------------------------------------------------------------- cache
\* getCached(SESSION_CACHE_KEY): the entry unless Redis has expired it.
GetCachedSession ==
  IF redisSession.session # NoSession /\ NowMs < redisSession.expiresAt
    THEN redisSession.session
    ELSE NoSession

\* setCached(SESSION_CACHE_KEY, s, SESSION_TTL_SECONDS)
SetCachedSession(s) == [session |-> s, expiresAt |-> NowMs + SESSION_TTL_SECONDS * 1000]

\* getCached(cacheKey) of a fundamentals entry: its payload, 0 when absent or expired.
GetCachedFund(sym) ==
  IF redisFund[sym].data # 0 /\ NowMs < redisFund[sym].expiresAt
    THEN redisFund[sym].data
    ELSE 0

\* setCached(cacheKey, result, FUNDAMENTALS_TTL_SECONDS)
SetCachedFund(d) ==
  [data |-> d, expiresAt |-> NowMs + FUNDAMENTALS_TTL_SECONDS * 1000, storedAt |-> NowMs]

\* ------------------------------------------------- metrics, pure functions
\* services/fundamentals.ts:92-93, toNumber
toNumber(x) == IF x.k = "number" THEN x ELSE Undefined

\* services/fundamentals.ts:95-100, safeDivide, on numbers in units of 1/Scale.
safeDivide(n, d) == IF d = 0 THEN Undefined ELSE Num((n * Scale) \div d)

\* JavaScript truthiness of an optional number.
Truthy(x) == x.k = "number" /\ x.v # 0

\* The latest Tiingo price and fundamentals entries, as far as the model reads them.
TiingoEntries ==
  { [dividendsPerShare |-> Num(2 * Scale), close |-> Num(100 * Scale), peRatio |-> Num(20 * Scale)],
    [dividendsPerShare |-> Undefined, close |-> Num(60 * Scale), peRatio |-> Num(25 * Scale)],
    [dividendsPerShare |-> Num(0), close |-> Num(10 * Scale), peRatio |-> Undefined] }

\* services/fundamentals.ts:146-226, deriveTiingoMetrics: the object it returns
\* has no payoutRatio and none of the other allow-list keys but dividendYield.
deriveTiingoMetrics(e) ==
  [k \in MetricKeys |->
     CASE k = "currentPrice" -> toNumber(e.close)
       [] k = "trailingPE" -> toNumber(e.peRatio)
       [] k = "marketCap" -> Undefined
       [] k = "dividendYield" ->
            IF Truthy(e.dividendsPerShare)
              THEN safeDivide(e.dividendsPerShare.v,
                              IF toNumber(e.close) = Undefined THEN 0 ELSE e.close.v)
              ELSE Undefined
       [] OTHER -> Undefined]

\* services/fundamentals.ts:228-260, buildTiingoResult
buildTiingoResult(sym, e) ==
  LET metrics == deriveTiingoMetrics(e) IN
    [symbol |-> sym, source |-> "tiingo", metrics |-> metrics,
     warnings |-> IF Truthy(metrics["trailingPE"]) THEN <<>> ELSE <<"Missing Tiingo P/E ratio">>]

\* What the scraped provider answers: payload 1 carries price.symbol and dividend
\* data, payload 2 neither.
YahooMetrics(d) ==
  [k \in MetricKeys |->
     CASE k = "currentPrice" -> Num(60 * Scale)
       [] k = "trailingPE" -> Num(24 * Scale)
       [] k = "dividendYield" -> IF d = 1 THEN Num(310) ELSE Undefined
       [] k = "payoutRatio" -> IF d = 1 THEN Num(5500) ELSE Undefined
       [] k = "revenueGrowthHistory" -> IF d = 1 THEN Arr(4) ELSE Undefined
       [] OTHER -> Undefined]

\* price.symbol of payload d: the upstream names the stock as the request path did.
PriceSymbol(sym, d) == IF d = 1 THEN YahooSymbol(sym) ELSE <<>>

\* yahoo/fundamentals.ts:389-407, the YahooFundamentals parseQuoteSummary returns
\* for the requested symbol sym; the symbol is price.symbol?.toUpperCase() ??
\* requestedSymbol.toUpperCase().
YahooFundamentals(sym, d) ==
  [symbol |-> IF PriceSymbol(sym, d) # <<>> THEN toUpperCase(PriceSymbol(sym, d))
                                            ELSE toUpperCase(sym),
   source |-> "yahoo", metrics |-> YahooMetrics(d)]

\* services/fundamentals.ts:328-369, normalizeYahooResult
normalizeYahooResult(y) ==
  [symbol |-> y.symbol, source |-> "yahoo",
   metrics |-> [k \in MetricKeys |-> y.metrics[k]], warnings |-> <<>>]

\* Mutant: any present supplemental value is taken.
FillsGap_Overwrite(currentValue, supplementalValue) ==
  supplementalValue \notin {Undefined, NullV}

\* services/fundamentals.ts:285-289, the test that lets a supplemental value in.
FillsGap(currentValue, supplementalValue) ==
  /\ currentValue \in {Undefined, NullV, Num(0)}
  /\ supplementalValue \notin {Undefined, NullV}

\* Mutant: every metric is open to the supplement.
mergeSupplementalMetrics_AllKeys(primary, supplemental) ==
  [primary EXCEPT
     !.metrics = [k \in MetricKeys |->
                    IF FillsGap(primary.metrics[k], supplemental.metrics[k])
                      THEN supplemental.metrics[k]
                      ELSE primary.metrics[k]],
     !.warnings = primary.warnings \o supplemental.warnings]

\* services/fundamentals.ts:262-304, mergeSupplementalMetrics
mergeSupplementalMetrics(primary, supplemental) ==
  [primary EXCEPT
     !.metrics = [k \in MetricKeys |->
                    IF k \in keysToSupplement
                         /\ FillsGap(primary.metrics[k], supplemental.metrics[k])
                      THEN supplemental.metrics[k]
                      ELSE primary.metrics[k]],
     !.warnings = primary.warnings \o supplemental.warnings]

\* Mutant: only dividendYield is looked at.
needsSupplement_DividendOnly(t) ==
  t.metrics["dividendYield"] \in {Undefined, NullV, Num(0)}

\* services/fundamentals.ts:389-394, needsSupplement
needsSupplement(t) ==
  \/ t.metrics["dividendYield"] \in {Undefined, NullV, Num(0)}
  \/ t.metrics["payoutRatio"] \in {Undefined, NullV}


\* ----------------------------------- fetchFundamentalsWithFallback, its tail
\* Mutant: a merged result is labelled with the source of the supplement.
AfterYahooResolved_SupplementSource(pr, d) ==
  LET y == normalizeYahooResult(YahooFundamentals(pr.sym, d)) IN
    [pr EXCEPT !.pc = "done",
               !.result = IF pr.stage = "supplement"
                            THEN [mergeSupplementalMetrics(pr.tiingo, y)
                                    EXCEPT !.source = y.source]
                            ELSE y]

\* services/fundamentals.ts:401-405 and 422-423: fetchYahooFundamentals resolved
\* with payload d, as the supplement or as the fallback.
AfterYahooResolved(pr, d) ==
  LET y == normalizeYahooResult(YahooFundamentals(pr.sym, d)) IN
    IF pr.stage = "supplement"
      THEN [pr EXCEPT !.pc = "done",
                      !.result = [mergeSupplementalMetrics(pr.tiingo, y)
                                    EXCEPT !.source = pr.tiingo.source]]
      ELSE [pr EXCEPT !.pc = "done", !.result = y]

\* Mutant: the last error is always raised as it is.
OnlyOneError_Always(errors) == TRUE

\* services/fundamentals.ts:431, the test for propagating a single error.
OnlyOneError(errors) == Len(errors) = 1

\* Mutant: a failed supplement fails the call.
AfterYahooRejected_Surfaced(pr, kind) ==
  [pr EXCEPT !.pc = "done", !.err = TRUE,
             !.errors = Append(pr.errors, kind), !.errKind = kind]

\* services/fundamentals.ts:406-413 and 424-439: fetchYahooFundamentals rejected.
AfterYahooRejected(pr, kind) ==
  IF pr.stage = "supplement"
    THEN [pr EXCEPT !.pc = "done", !.result = pr.tiingo]
    ELSE LET errors == Append(pr.errors, kind) IN
           [pr EXCEPT !.pc = "done", !.err = TRUE, !.errors = errors,
                      !.errKind = IF OnlyOneError(errors) THEN kind ELSE "aggregate"]

\* ------------------------------------------- fetchYahooFundamentals, its tail
\* yahoo/fundamentals.ts:495, 504, 522, 537: the call resolves with payload d.
YahooResolved(pr, d) ==
  IF pr.op = "yahoo"
    THEN [pr EXCEPT !.pc = "done", !.data = d]
    ELSE AfterYahooResolved([pr EXCEPT !.data = d], d)

\* yahoo/fundamentals.ts:539 (and an error out of the retry at line 526).
YahooRejected(pr, kind) ==
  IF pr.op = "yahoo"
    THEN [pr EXCEPT !.pc = "done", !.err = TRUE, !.errKind = kind, !.yahooErr = kind]
    ELSE AfterYahooRejected([pr EXCEPT !.yahooErr = kind], kind)

\* ----------------------------------------------------------- getYahooSession
\* session.ts:132, the in-memory cache test.
MemoryHit == cachedSession # NoSession /\ NowMs < cachedSessionExpiresAt

\* Mutant: the single-flight guard is dropped, every miss starts a refresh.
NoRefreshInFlight_Unguarded == TRUE

\* session.ts:138, the single-flight guard.
NoRefreshInFlight == inFlightSession = 0

\* Mutant: the TTL in seconds is added to a time in milliseconds.
MemoryExpiry_Seconds == NowMs + SESSION_TTL_SECONDS

\* session.ts:149 and 166, the in-memory expiry stamped when a session is stored.
MemoryExpiry == NowMs + SESSION_TTL_MS

\* getYahooSession returns s to its caller (session.ts:127, 134, 169). A caller in
\* performQuoteSummaryRequest sends its request at once (yahoo/fundamentals.ts:427-447).
Returned(pr, s, src) ==
  LET got == [pr EXCEPT !.ret = s, !.from = src, !.retAt = now,
                        !.quiet = (pr.base \notin disturbed)] IN
    IF pr.op = "acquire"
      THEN [got EXCEPT !.pc = "done"]
      ELSE [got EXCEPT !.pc = "qs_fetch", !.log = Append(@, "request"),
                       !.path = YahooSymbol(pr.sym)]

\* getYahooSession rejects (the awaited refresh failed, session.ts:158); in
\* fetchYahooFundamentals the error is no InvalidYahooSessionError and propagates.
Thrown(pr) ==
  LET got == [pr EXCEPT !.from = "refresh", !.retAt = now,
                        !.quiet = (pr.base \notin disturbed)] IN
    IF pr.op = "acquire"
      THEN [got EXCEPT !.pc = "done", !.err = TRUE]
      ELSE YahooRejected(got, "session")

\* session.ts:132-158: the code that runs, without suspension, from the in-memory
\* test to the await of the in-flight refresh. pr is the caller's record.
LookupOrRefresh(p, pr) ==
  IF ~pr.force /\ MemoryHit
    THEN /\ proc' = [proc EXCEPT ![p] = Returned(pr, cachedSession, "memory")]
         /\ UNCHANGED <<inFlightSession, refresh, nRefresh>>
    ELSE IF NoRefreshInFlight
      THEN /\ nRefresh' = nRefresh + 1
           /\ refresh' = [refresh EXCEPT ![nRefresh + 1] =
                                 [@ EXCEPT !.st = "bootstrap", !.boot = @ + 1]]
           /\ inFlightSession' = nRefresh + 1
           /\ proc' = [proc EXCEPT ![p] =
                         [pr EXCEPT !.pc = "gs_wait", !.joined = nRefresh + 1,
                                    !.started = TRUE]]
      ELSE /\ proc' = [proc EXCEPT ![p] =
                         [pr EXCEPT !.pc = "gs_wait", !.joined = inFlightSession]]
           /\ UNCHANGED <<inFlightSession, refresh, nRefresh>>

\* session.ts:117-158: a task whose record is pr enters getYahooSession({forceRefresh});
\* inv is the number of invalidates completed at that moment.
EnterGetYahooSession(p, pr, forceRefresh, inv) ==
  LET entered == [pr EXCEPT !.force = forceRefresh, !.joined = 0, !.started = FALSE,
                            !.base = lastIssued, !.epoch = inv,
                            !.log = Append(@, IF forceRefresh THEN "acquire_forced"
                                                              ELSE "acquire")] IN
    IF ~forceRefresh /\ cacheEnabled
      THEN /\ proc' = [proc EXCEPT ![p] = [entered EXCEPT !.pc = "gs_redis"]]
           /\ UNCHANGED <<inFlightSession, refresh, nRefresh>>
      ELSE LookupOrRefresh(p, entered)

\* The sessions issued so far: a forced call or an invalidate disturbs them all.
IssuedIds == {r \in RefreshIds : refresh[r].st = "resolved"}

\* A task calls getYahooSession({forceRefresh}).
CallGetYahooSession(p, forceRefresh) ==
  /\ proc[p].pc \in {"idle", "done"}
  /\ calls < MaxCalls
  /\ calls' = calls + 1
  /\ EnterGetYahooSession(p, [IdleProc EXCEPT !.op = "acquire"], forceRefresh, invCount)
  /\ disturbed' = IF forceRefresh THEN disturbed \cup IssuedIds ELSE disturbed
  /\ UNCHANGED <<now, envVars, redisSession, cachedSession, cachedSessionExpiresAt,
                 fundVars, lastIssued, invCount, pureCall>>

\* The reply to getCached arrives (session.ts:124-135).
GetCachedResolves(p) ==
  /\ proc[p].pc = "gs_redis"
  /\ IF GetCachedSession # NoSession
       THEN /\ proc' = [proc EXCEPT ![p] = Returned(proc[p], GetCachedSession, "redis")]
            /\ UNCHANGED <<inFlightSession, refresh, nRefresh>>
       ELSE LookupOrRefresh(p, proc[p])
  /\ UNCHANGED <<now, envVars, redisSession, cachedSession, cachedSessionExpiresAt,
                 fundVars, calls, histVars, pureCall>>

\* A refresh r resolves with session s: the finally handler clears the handle
\* (session.ts:153-155) and every caller awaiting r continues (session.ts:158-169).
\* A forced caller stores s again: at once when the cache is disabled, after the
\* reply to setCached otherwise.
ResumeResolved(r, s) ==
  [p \in Procs |->
     IF proc[p].pc = "gs_wait" /\ proc[p].joined = r
       THEN IF proc[p].force /\ cacheEnabled
              THEN [proc[p] EXCEPT !.pc = "gs_store", !.ret = s]
              ELSE Returned(proc[p], s, "refresh")
       ELSE proc[p]]

\* Mutant: only the caller that started the refresh gets its failure.
ResumeRejected_StarterOnly(r) ==
  [p \in Procs |->
     IF proc[p].pc = "gs_wait" /\ proc[p].joined = r /\ proc[p].started
       THEN Thrown(proc[p])
       ELSE proc[p]]

\* A refresh r rejects: every caller awaiting r gets the failure.
ResumeRejected(r) ==
  [p \in Procs |->
     IF proc[p].pc = "gs_wait" /\ proc[p].joined = r THEN Thrown(proc[p]) ELSE proc[p]]

\* Whether, when refresh r issues its session, an invalidate or a forced call that
\* awaited another refresh is still running.
OthersActive(r) ==
  \E p \in Procs :
    \/ proc[p].pc = "inv_redis"
    \/ proc[p].pc = "gs_store" /\ proc[p].joined # r

\* session.ts:148-155: the then handler stores s in memory, the finally handler
\* clears the handle, and the callers awaiting r continue.
Settle(r, s, e) ==
  /\ cachedSession' = s
  /\ cachedSessionExpiresAt' = MemoryExpiry
  /\ inFlightSession' = 0
  /\ refresh' = [refresh EXCEPT ![r] =
                   [@ EXCEPT !.st = "resolved", !.session = s, !.epoch = e]]
  /\ proc' = ResumeResolved(r, s)
  /\ lastIssued' = r
  /\ disturbed' = IF OthersActive(r) THEN disturbed \cup {r} ELSE disturbed

\* Mutant: a failed refresh leaves its handle in place.
Reject_KeepsHandle(r) ==
  /\ refresh' = [refresh EXCEPT ![r].st = "rejected"]
  /\ proc' = ResumeRejected(r)
  /\ UNCHANGED <<inFlightSession, redisSession, cachedSession, cachedSessionExpiresAt,
                 histVars>>

\* session.ts:153-158: a failed refresh clears the handle and fails its callers.
Reject(r) ==
  /\ inFlightSession' = 0
  /\ refresh' = [refresh EXCEPT ![r].st = "rejected"]
  /\ proc' = ResumeRejected(r)
  /\ UNCHANGED <<redisSession, cachedSession, cachedSessionExpiresAt, histVars>>

\* The bootstrap request of refresh r is answered (session.ts:51-77).
BootstrapResponds(r, ok) ==
  /\ refresh[r].st = "bootstrap"
  /\ IF ok
       THEN /\ refresh' = [refresh EXCEPT ![r] = [@ EXCEPT !.st = "token", !.tok = @ + 1]]
            /\ UNCHANGED <<redisSession, cachedSession, cachedSessionExpiresAt,
                           inFlightSession, proc, histVars>>
       ELSE Reject(r)
  /\ UNCHANGED <<now, envVars, nRefresh, fundVars, calls, pureCall>>

\* The token request of refresh r is answered (session.ts:79-114), and the then
\* handler runs up to its first await (session.ts:140-152).
TokenResponds(r, ok) ==
  /\ refresh[r].st = "token"
  /\ IF ok
       THEN IF cacheEnabled
              THEN /\ refresh' = [refresh EXCEPT ![r] =
                                    [@ EXCEPT !.st = "storing",
                                              !.session = YahooSession(r, NowMs),
                                              !.epoch = invCount]]
                   /\ UNCHANGED <<redisSession, cachedSession, cachedSessionExpiresAt,
                                  inFlightSession, proc, histVars>>
              ELSE /\ Settle(r, YahooSession(r, NowMs), invCount)
                   /\ UNCHANGED <<redisSession, invCount>>
       ELSE Reject(r)
  /\ UNCHANGED <<now, envVars, nRefresh, fundVars, calls, pureCall>>

\* The reply to the then handler's setCached arrives (session.ts:143-155).
SetCachedResolves(r) ==
  /\ refresh[r].st = "storing"
  /\ redisSession' = SetCachedSession(refresh[r].session)
  /\ Settle(r, refresh[r].session, refresh[r].epoch)
  /\ UNCHANGED <<now, envVars, nRefresh, fundVars, calls, invCount, pureCall>>

\* The reply to a forced caller's setCached arrives (session.ts:160-169).
ForcedStoreResolves(p) ==
  /\ proc[p].pc = "gs_store"
  /\ redisSession' = SetCachedSession(proc[p].ret)
  /\ cachedSession' = proc[p].ret
  /\ cachedSessionExpiresAt' = MemoryExpiry
  /\ proc' = [proc EXCEPT ![p] = Returned(proc[p], proc[p].ret, "refresh")]
  /\ UNCHANGED <<now, envVars, inFlightSession, refresh, nRefresh, fundVars, calls,
                 histVars, pureCall>>

\* ---------------------------------------------------- invalidateYahooSession
\* session.ts:178-179
ClearMemory ==
  /\ cachedSession' = NoSession
  /\ cachedSessionExpiresAt' = 0

\* Mutant: the retry asks for a session without forcing a refresh.
RetryAfterInvalidate_Unforced(p, pr, inv) ==
  EnterGetYahooSession(p, [pr EXCEPT !.attempt = 2], FALSE, inv)

\* yahoo/fundamentals.ts:526: after the invalidate, the retry enters
\* performQuoteSummaryRequest(normalizedSymbol, true).
RetryAfterInvalidate(p, pr, inv) ==
  EnterGetYahooSession(p, [pr EXCEPT !.attempt = 2], TRUE, inv)

\* A task calls invalidateYahooSession() (session.ts:172-181).
CallInvalidate(p) ==
  /\ proc[p].pc \in {"idle", "done"}
  /\ calls < MaxCalls
  /\ calls' = calls + 1
  /\ disturbed' = disturbed \cup IssuedIds
  /\ IF cacheEnabled
       THEN /\ proc' = [proc EXCEPT ![p] =
                          [IdleProc EXCEPT !.op = "invalidate", !.pc = "inv_redis"]]
            /\ UNCHANGED <<cachedSession, cachedSessionExpiresAt, invCount>>
       ELSE /\ ClearMemory
            /\ invCount' = invCount + 1
            /\ proc' = [proc EXCEPT ![p] =
                          [IdleProc EXCEPT !.op = "invalidate", !.pc = "done",
                                           !.retAt = now]]
  /\ UNCHANGED <<now, envVars, redisSession, inFlightSession, refresh, nRefresh,
                 fundVars, lastIssued, pureCall>>

\* The reply to deleteCached arrives (session.ts:175-180); a fundamentals call goes
\* on to its retry.
DeleteCachedResolves(p) ==
  /\ proc[p].pc = "inv_redis"
  /\ redisSession' = NoEntry
  /\ ClearMemory
  /\ invCount' = invCount + 1
  /\ IF proc[p].op = "invalidate"
       THEN /\ proc' = [proc EXCEPT ![p] = [@ EXCEPT !.pc = "done", !.retAt = now]]
            /\ UNCHANGED <<inFlightSession, refresh, nRefresh>>
       ELSE RetryAfterInvalidate(p, proc[p], invCount + 1)
  /\ UNCHANGED <<now, envVars, fundVars, calls, lastIssued, disturbed, pureCall>>

\* --------------------------------------------------- fetchYahooFundamentals
\* The sessions a forced refresh or an invalidate that starts now disturbs.
Disturb(forced) == IF forced THEN disturbed \cup IssuedIds ELSE disturbed

\* yahoo/fundamentals.ts:500-502, the in-memory cache test.
FundMemoryHit(sym) ==
  fundamentalsCache[sym].data # 0 /\ fundamentalsCache[sym].expiresAt > NowMs

\* yahoo/fundamentals.ts:519 and 534: the in-memory expiry, counted from the `now`
\* of line 499 on the first attempt and from Date.now() on the retry.
StoreExpiry(pr) ==
  IF pr.attempt = 1 THEN pr.start * TickMs + FUNDAMENTALS_TTL_MS
                    ELSE NowMs + FUNDAMENTALS_TTL_MS

\* Mutant: a forced call retries too.
ShouldRetry_Forced(pr) == pr.attempt = 1

\* Mutant: every invalid-session rejection of a non-forced call is retried.
ShouldRetry_Always(pr) == ~pr.optForce

\* yahoo/fundamentals.ts:524: the retry is taken for an InvalidYahooSessionError
\* caught by the try of line 507 (the first attempt) in a non-forced call.
ShouldRetry(pr) == pr.attempt = 1 /\ ~pr.optForce

\* History: the entry was written less than 12 hours ago.
StoredLately(entry) == entry.data # 0 /\ NowMs < entry.storedAt + FUNDAMENTALS_TTL_MS

\* A call returns the cached entry (yahoo/fundamentals.ts:495 and 504).
CacheHit(pr, src, entry) ==
  YahooResolved([pr EXCEPT !.log = Append(@, "hit"), !.hitSrc = src,
                           !.hitStored = entry.storedAt, !.hitAt = now],
                entry.data)

\* yahoo/fundamentals.ts:499-508: from the in-memory lookup into
\* performQuoteSummaryRequest(normalizedSymbol, forceRefresh).
YahooAfterRedis(p, pr) ==
  LET seen == [pr EXCEPT !.fresh = @ \/ StoredLately(fundamentalsCache[pr.sym])] IN
    IF ~pr.optForce /\ FundMemoryHit(pr.sym)
      THEN /\ proc' = [proc EXCEPT ![p] =
                         CacheHit(seen, "memory", fundamentalsCache[pr.sym])]
           /\ UNCHANGED <<inFlightSession, refresh, nRefresh>>
      ELSE EnterGetYahooSession(p, [seen EXCEPT !.start = now, !.attempt = 1],
                                pr.optForce, invCount)

\* Mutant: no symbol is taken for empty.
IsEmptySymbol_Never(normalizedSymbol) == FALSE

\* yahoo/fundamentals.ts:483 and services/fundamentals.ts:380, !normalizedSymbol
IsEmptySymbol(normalizedSymbol) == normalizedSymbol = <<>>

\* yahoo/fundamentals.ts:477-492: fetchYahooFundamentals(symbol, options) up to its
\* first await; pr.sym is the symbol argument.
YahooStart(p, pr) ==
  LET normalizedSymbol == Normalize(pr.sym)
      call == [pr EXCEPT !.sym = normalizedSymbol] IN
    IF IsEmptySymbol(normalizedSymbol)
      THEN /\ proc' = [proc EXCEPT ![p] = YahooRejected(call, "argument")]
           /\ UNCHANGED <<inFlightSession, refresh, nRefresh>>
      ELSE IF ~pr.optForce /\ cacheEnabled
        THEN /\ proc' = [proc EXCEPT ![p] = [call EXCEPT !.pc = "fy_redis"]]
             /\ UNCHANGED <<inFlightSession, refresh, nRefresh>>
        ELSE YahooAfterRedis(p, call)

\* A task calls fetchYahooFundamentals(sym, {forceRefresh: force}).
CallFetchYahooFundamentals(p, sym, force) ==
  /\ proc[p].pc \in {"idle", "done"}
  /\ calls < MaxFundCalls
  /\ calls' = calls + 1
  /\ YahooStart(p, [IdleProc EXCEPT !.op = "yahoo", !.input = sym, !.sym = sym,
                                   !.optForce = force])
  /\ disturbed' = Disturb(force /\ ~IsEmptySymbol(Normalize(sym)))
  /\ UNCHANGED <<now, envVars, redisSession, cachedSession, cachedSessionExpiresAt,
                 fundVars, lastIssued, invCount, pureCall>>

\* The reply to getCached(cacheKey) arrives (yahoo/fundamentals.ts:492-508).
FyRedisResolves(p) ==
  /\ proc[p].pc = "fy_redis"
  /\ LET seen == [proc[p] EXCEPT !.fresh = StoredLately(redisFund[proc[p].sym])] IN
       IF GetCachedFund(proc[p].sym) # 0
         THEN /\ proc' = [proc EXCEPT ![p] =
                            CacheHit(seen, "redis", redisFund[proc[p].sym])]
              /\ UNCHANGED <<inFlightSession, refresh, nRefresh>>
         ELSE YahooAfterRedis(p, seen)
  /\ UNCHANGED <<now, envVars, redisSession, cachedSession, cachedSessionExpiresAt,
                 fundVars, calls, histVars, pureCall>>

\* yahoo/fundamentals.ts:475 and 510-522 (531-537 on the retry): the request
\* succeeded with payload d.
QsOk(p, pr, d) ==
  /\ IF cacheEnabled
       THEN /\ proc' = [proc EXCEPT ![p] =
                          [pr EXCEPT !.pc = "fy_store", !.data = d,
                                     !.log = Append(@, "ok")]]
            /\ UNCHANGED fundamentalsCache
       ELSE /\ fundamentalsCache' = [fundamentalsCache EXCEPT ![pr.sym] =
                                       [data |-> d, expiresAt |-> StoreExpiry(pr),
                                        storedAt |-> NowMs]]
            /\ proc' = [proc EXCEPT ![p] =
                          YahooResolved([pr EXCEPT !.log = Append(@, "ok"),
                                                   !.wrote = @ + 1], d)]
  /\ UNCHANGED <<redisSession, cachedSession, cachedSessionExpiresAt, inFlightSession,
                 refresh, nRefresh, histVars>>

\* yahoo/fundamentals.ts:451-455 and 469-472, then 523-540: the session was
\* rejected; the first attempt of a non-forced call invalidates and retries.
QsInvalid(p, pr) ==
  LET rejected == [pr EXCEPT !.log = Append(@, "reject")] IN
    IF ShouldRetry(pr)
      THEN LET retrying == [rejected EXCEPT !.log = Append(@, "invalidate")] IN
             /\ disturbed' = Disturb(TRUE)
             /\ UNCHANGED <<redisSession, lastIssued, fundamentalsCache>>
             /\ IF cacheEnabled
                  THEN /\ proc' = [proc EXCEPT ![p] = [retrying EXCEPT !.pc = "inv_redis"]]
                       /\ UNCHANGED <<cachedSession, cachedSessionExpiresAt,
                                      inFlightSession, refresh, nRefresh, invCount>>
                  ELSE /\ ClearMemory
                       /\ invCount' = invCount + 1
                       /\ RetryAfterInvalidate(p, retrying, invCount + 1)
      ELSE /\ proc' = [proc EXCEPT ![p] = YahooRejected(rejected, "invalid")]
           /\ UNCHANGED <<redisSession, cachedSession, cachedSessionExpiresAt,
                          inFlightSession, refresh, nRefresh, histVars,
                          fundamentalsCache>>

\* yahoo/fundamentals.ts:456-465 and 539: any other failure propagates.
QsOther(p, pr) ==
  /\ proc' = [proc EXCEPT ![p] =
                YahooRejected([pr EXCEPT !.log = Append(@, "error")], "other")]
  /\ UNCHANGED <<redisSession, cachedSession, cachedSessionExpiresAt, inFlightSession,
                 refresh, nRefresh, histVars, fundamentalsCache>>

\* The upstream answers the quoteSummary request (yahoo/fundamentals.ts:429-475):
\* "ok" with payload d, "invalid" (401, 403 or an invalid crumb/cookie message),
\* or "other" (another status, a body that is no JSON, a timeout).
QsResponds(p, outcome, d) ==
  /\ proc[p].pc = "qs_fetch"
  /\ LET pr == [proc[p] EXCEPT !.resp = Append(@, [o |-> outcome, d |-> d])] IN
       CASE outcome = "ok" -> QsOk(p, pr, d)
         [] outcome = "invalid" -> QsInvalid(p, pr)
         [] OTHER -> QsOther(p, pr)
  /\ UNCHANGED <<now, envVars, redisFund, calls, pureCall>>

\* The reply to setCached(cacheKey, result) arrives (yahoo/fundamentals.ts:512-522
\* and 529-537).
FyStoreResolves(p) ==
  /\ proc[p].pc = "fy_store"
  /\ redisFund' = [redisFund EXCEPT ![proc[p].sym] = SetCachedFund(proc[p].data)]
  /\ fundamentalsCache' = [fundamentalsCache EXCEPT ![proc[p].sym] =
                             [data |-> proc[p].data, expiresAt |-> StoreExpiry(proc[p]),
                              storedAt |-> NowMs]]
  /\ proc' = [proc EXCEPT ![p] =
                YahooResolved([proc[p] EXCEPT !.wrote = @ + 1], proc[p].data)]
  /\ UNCHANGED <<now, envVars, sessionVars, calls, histVars, pureCall>>

\* ------------------------------------------- fetchFundamentalsWithFallback
\* How fetchFromTiingo can fail once the key is configured: a request is answered
\* with a non-2xx status or times out (services/fundamentals.ts:102-126), the price
\* history is empty (line 317) or the fundamentals history is empty (line 321).
TiingoFailures == {"http", "timeout", "price_empty", "fund_empty"}

\* Mutant: the key is not looked at before the requests are sent.
TiingoConfigured_Unchecked == TRUE

\* services/fundamentals.ts:307, the test of TIINGO_API_KEY in fetchFromTiingo.
TiingoConfigured == tiingoKey

\* services/fundamentals.ts:401 and 422: the orchestrator calls
\* fetchYahooFundamentals(normalizedSymbol, options) as supplement or as fallback.
CallYahoo(p, pr, stage) ==
  YahooStart(p, [pr EXCEPT !.stage = stage, !.log = Append(@, "yahoo_call")])

\* A task calls fetchFundamentalsWithFallback(sym, {forceRefresh: force})
\* (services/fundamentals.ts:375-387 and 306-314; without a key 414-422).
CallFetchFundamentalsWithFallback(p, sym, force) ==
  /\ proc[p].pc \in {"idle", "done"}
  /\ calls < MaxFallbackCalls
  /\ calls' = calls + 1
  /\ LET normalizedSymbol == Normalize(sym)
         pr == [IdleProc EXCEPT !.op = "fallback", !.input = sym,
                                !.sym = normalizedSymbol, !.optForce = force] IN
       IF IsEmptySymbol(normalizedSymbol)
         THEN /\ proc' = [proc EXCEPT ![p] =
                            [pr EXCEPT !.pc = "done", !.err = TRUE,
                                       !.errKind = "argument"]]
              /\ UNCHANGED <<inFlightSession, refresh, nRefresh, disturbed>>
         ELSE IF TiingoConfigured
           THEN /\ proc' = [proc EXCEPT ![p] =
                              [pr EXCEPT !.pc = "tiingo", !.log = <<"tiingo_call">>]]
                /\ UNCHANGED <<inFlightSession, refresh, nRefresh, disturbed>>
           ELSE /\ CallYahoo(p, [pr EXCEPT !.errors = <<"config">>,
                                           !.log = <<"tiingo_call">>], "fallback")
                /\ disturbed' = Disturb(force)
  /\ UNCHANGED <<now, envVars, redisSession, cachedSession, cachedSessionExpiresAt,
                 fundVars, lastIssued, invCount, pureCall>>

\* Mutant: the Tiingo failure is not kept in the list of errors.
TiingoRejects_Unrecorded(p, kind) ==
  /\ proc[p].pc = "tiingo"
  /\ CallYahoo(p, proc[p], "fallback")
  /\ disturbed' = Disturb(proc[p].optForce)
  /\ UNCHANGED <<now, envVars, redisSession, cachedSession, cachedSessionExpiresAt,
                 fundVars, calls, lastIssued, invCount, pureCall>>

\* Mutant: a Tiingo failure fails the call without asking Yahoo.
TiingoRejects_NoFallback(p, kind) ==
  /\ proc[p].pc = "tiingo"
  /\ proc' = [proc EXCEPT ![p] =
                [@ EXCEPT !.pc = "done", !.err = TRUE, !.errKind = kind,
                          !.errors = Append(@, kind)]]
  /\ UNCHANGED <<now, envVars, sessionVars, fundVars, calls, histVars, pureCall>>

\* The three Tiingo requests have settled and fetchFromTiingo fails
\* (services/fundamentals.ts:311-323, then 414-422).
TiingoRejects(p, kind) ==
  /\ proc[p].pc = "tiingo"
  /\ CallYahoo(p, [proc[p] EXCEPT !.errors = Append(@, kind)], "fallback")
  /\ disturbed' = Disturb(proc[p].optForce)
  /\ UNCHANGED <<now, envVars, redisSession, cachedSession, cachedSessionExpiresAt,
                 fundVars, calls, lastIssued, invCount, pureCall>>

\* The three Tiingo requests have settled and fetchFromTiingo returns the result
\* built from the latest entries e (services/fundamentals.ts:325, then 387-401).
TiingoResolves(p, e) ==
  /\ proc[p].pc = "tiingo"
  /\ LET tiingoResult == buildTiingoResult(proc[p].sym, e) IN
       IF ~needsSupplement(tiingoResult)
         THEN /\ proc' = [proc EXCEPT ![p] =
                            [@ EXCEPT !.pc = "done", !.tiingo = tiingoResult,
                                      !.result = tiingoResult]]
              /\ UNCHANGED <<inFlightSession, refresh, nRefresh, disturbed>>
         ELSE /\ CallYahoo(p, [proc[p] EXCEPT !.tiingo = tiingoResult], "supplement")
              /\ disturbed' = Disturb(proc[p].optForce)
  /\ UNCHANGED <<now, envVars, redisSession, cachedSession, cachedSessionExpiresAt,
                 fundVars, calls, lastIssued, invCount, pureCall>>

\* -------------------------------------------------- mergeSupplementalMetrics
\* The values a metric takes in the arguments of a merge.
MetricValues == {Undefined, NullV, Num(0), Num(200), Num(300), Arr(3)}

NoCall == [primary |-> NoResult, supplemental |-> NoResult, result |-> NoResult,
           done |-> FALSE]

\* The arguments of a merge: a Tiingo result and a normalized Yahoo result, with
\* one metric k set to pv in the first and to sv in the second.
MergeCalls ==
  { [NoCall EXCEPT
       !.primary = [t EXCEPT !.metrics[k] = pv],
       !.supplemental = [y EXCEPT !.metrics[k] = sv]] :
      <<t, y, k, pv, sv>> \in
        {buildTiingoResult(<<"A", ".", "B">>, e) : e \in TiingoEntries}
          \X {normalizeYahooResult(YahooFundamentals(<<"A", ".", "B">>, d)) : d \in Payloads}
          \X MetricKeys \X MetricValues \X MetricValues }

\* mergeSupplementalMetrics(primary, supplemental) is evaluated.
ApplyMerge ==
  /\ ~pureCall.done
  /\ pureCall.primary # NoResult
  /\ pureCall' = [pureCall EXCEPT
                    !.result = mergeSupplementalMetrics(pureCall.primary,
                                                        pureCall.supplemental),
                    !.done = TRUE]
  /\ UNCHANGED <<now, envVars, sessionVars, fundVars, proc, calls, histVars>>

\* --------------------------------------------------------------------- time
Tick ==
  /\ now < MaxTicks
  /\ now' = now + 1
  /\ UNCHANGED <<envVars, sessionVars, fundVars, proc, calls, histVars, pureCall>>

\* Half the fundamentals TTL passes.
TickFund ==
  /\ now < MaxFundTicks * FundTick
  /\ now' = now + FundTick
  /\ UNCHANGED <<envVars, sessionVars, fundVars, proc, calls, histVars, pureCall>>

\* ----------------------------------------------------------- specifications
\* The state of the modules after they are loaded.
Init ==
  /\ now = 0
  /\ cacheEnabled \in BOOLEAN
  /\ tiingoKey \in BOOLEAN
  /\ redisSession = NoEntry
  /\ cachedSession = NoSession
  /\ cachedSessionExpiresAt = 0
  /\ inFlightSession = 0
  /\ refresh = [r \in RefreshIds |-> IdleRefresh]
  /\ nRefresh = 0
  /\ fundamentalsCache = [s \in Symbols |-> NoFundEntry]
  /\ redisFund = [s \in Symbols |-> NoFundEntry]
  /\ proc = [p \in Procs |-> IdleProc]
  /\ calls = 0
  /\ lastIssued = 0
  /\ disturbed = {}
  /\ invCount = 0
  /\ pureCall = NoCall

\* Deployments with the Tiingo key configured.
InitKeyed == Init /\ tiingoKey

\* The steps of the session manager that no caller takes: replies arriving.
SessionReplies ==
  \/ \E p \in Procs : GetCachedResolves(p)
  \/ \E r \in RefreshIds, ok \in BOOLEAN : BootstrapResponds(r, ok)
  \/ \E r \in RefreshIds, ok \in BOOLEAN : TokenResponds(r, ok)
  \/ \E r \in RefreshIds : SetCachedResolves(r)
  \/ \E p \in Procs : ForcedStoreResolves(p)
  \/ \E p \in Procs : DeleteCachedResolves(p)

\* The replies a fetchYahooFundamentals call waits for.
YahooReplies ==
  \/ \E p \in Procs : FyRedisResolves(p)
  \/ \E p \in Procs : QsResponds(p, "ok", 1)
  \/ \E p \in Procs : QsResponds(p, "ok", 2)
  \/ \E p \in Procs : QsResponds(p, "invalid", 0)
  \/ \E p \in Procs : QsResponds(p, "other", 0)
  \/ \E p \in Procs : FyStoreResolves(p)

\* Tasks that call the session manager directly.
Next ==
  \/ \E p \in Procs, f \in BOOLEAN : CallGetYahooSession(p, f)
  \/ \E p \in Procs : CallInvalidate(p)
  \/ SessionReplies
  \/ Tick

Spec == InitKeyed /\ [][Next]_vars

\* Tasks that call fetchYahooFundamentals.
NextFund ==
  \/ \E p \in Procs, s \in RawSymbols, f \in BOOLEAN :
       CallFetchYahooFundamentals(p, s, f)
  \/ YahooReplies
  \/ SessionReplies

SpecFund == InitKeyed /\ [][NextFund]_vars

\* One task that calls fetchYahooFundamentals again and again while the hours go by.
NextFundCache ==
  \/ \E s \in RawSymbols, f \in BOOLEAN : CallFetchYahooFundamentals("p1", s, f)
  \/ YahooReplies
  \/ SessionReplies
  \/ TickFund

SpecFundCache == InitKeyed /\ [][NextFundCache]_vars

\* Tasks that call fetchFundamentalsWithFallback.
NextFallback ==
  \/ \E p \in Procs, s \in RawSymbols, f \in BOOLEAN :
       CallFetchFundamentalsWithFallback(p, s, f)
  \/ \E p \in Procs, kind \in TiingoFailures : TiingoRejects(p, kind)
  \/ \E p \in Procs, e \in TiingoEntries : TiingoResolves(p, e)
  \/ YahooReplies
  \/ SessionReplies

SpecFallback == Init /\ [][NextFallback]_vars

\* Evaluations of mergeSupplementalMetrics on the arguments of MergeCalls.
InitMerge ==
  /\ now = 0
  /\ cacheEnabled = FALSE
  /\ tiingoKey = TRUE
  /\ redisSession = NoEntry
  /\ cachedSession = NoSession
  /\ cachedSessionExpiresAt = 0
  /\ inFlightSession = 0
  /\ refresh = [r \in RefreshIds |-> IdleRefresh]
  /\ nRefresh = 0
  /\ fundamentalsCache = [s \in Symbols |-> NoFundEntry]
  /\ redisFund = [s \in Symbols |-> NoFundEntry]
  /\ proc = [p \in Procs |-> IdleProc]
  /\ calls = 0
  /\ lastIssued = 0
  /\ disturbed = {}
  /\ invCount = 0
  /\ pureCall \in MergeCalls

NextMerge == ApplyMerge

SpecMerge == InitMerge /\ [][NextMerge]_vars

\* --------------------------------- performQuoteSummaryRequest, the response
\* A description is the sequence of its words, one blank between two words.
LowerCase(w) ==
  CASE w \in {"Invalid", "INVALID"} -> "invalid"
    [] w \in {"Crumb", "CRUMB"} -> "crumb"
    [] w \in {"Cookie", "COOKIE"} -> "cookie"
    [] w = "Not" -> "not"
    [] w = "Found" -> "found"
    [] OTHER -> w

\* /invalid (crumb|cookie)/i.test(description)
MatchesInvalidSession(description) ==
  \E i \in 1 .. (Len(description) - 1) :
    /\ LowerCase(description[i]) = "invalid"
    /\ LowerCase(description[i + 1]) \in {"crumb", "cookie"}

\* The error descriptions the upstream sends.
Descriptions ==
  { <<"Invalid", "Crumb">>, <<"invalid", "cookie">>, <<"INVALID", "COOKIE">>,
    <<"Quote", "Not", "Found">>, <<"Invalid", "symbol">>, <<"crumb", "invalid">> }

\* A response body: text that is no JSON, or a quoteSummary payload with or without
\* an error description and with or without a result.
NotJson == [json |-> FALSE, hasError |-> FALSE, description |-> <<>>, hasResult |-> FALSE]

Bodies ==
  {NotJson} \cup
  [json : {TRUE}, hasError : {FALSE}, description : {<<>>}, hasResult : BOOLEAN] \cup
  [json : {TRUE}, hasError : {TRUE}, description : Descriptions, hasResult : BOOLEAN]

Statuses == {200, 204, 400, 401, 403, 404, 429, 500}

\* Response.ok
ResponseOk(status) == status >= 200 /\ status <= 299

\* Mutant: only the status tells a rejected session.
shouldRetryWithNewSession_StatusOnly(status, bodyText) == status \in {401, 403}

\* yahoo/fundamentals.ts:410-421, shouldRetryWithNewSession
shouldRetryWithNewSession(status, bodyText) ==
  IF status \in {401, 403} THEN TRUE
  ELSE IF ~bodyText.json THEN FALSE
  ELSE MatchesInvalidSession(bodyText.description)

\* yahoo/fundamentals.ts:449-474 and 310-312: what performQuoteSummaryRequest makes
\* of a response: "ok" (a result is parsed), "invalid" (InvalidYahooSessionError)
\* or "other" (any other Error).
ClassifyResponse(status, bodyText) ==
  IF ~ResponseOk(status)
    THEN IF shouldRetryWithNewSession(status, bodyText) THEN "invalid" ELSE "other"
    ELSE IF ~bodyText.json THEN "other"
    ELSE IF bodyText.hasError /\ bodyText.description # <<>>
              /\ MatchesInvalidSession(bodyText.description) THEN "invalid"
    ELSE IF ~bodyText.hasResult THEN "other"
    ELSE "ok"

ClassifyCalls ==
  [status : Statuses, body : Bodies, outcome : {"none"}, done : {FALSE}]

\* performQuoteSummaryRequest classifies a response.
ApplyClassify ==
  /\ ~pureCall.done
  /\ pureCall' = [pureCall EXCEPT
                    !.outcome = ClassifyResponse(pureCall.status, pureCall.body),
                    !.done = TRUE]
  /\ UNCHANGED <<now, envVars, sessionVars, fundVars, proc, calls, histVars>>

\* ------------------------------------------- computeStatementDerivedMetrics
\* The statement histories after extractStatementEntries, latest period first, as
\* far as roeActual reads them.
StatementAmounts == {Undefined, Num(0), Num(50), Num(0 - 50)}
EquityAmounts == {Undefined, Num(0), Num(100), Num(300), Num(0 - 100)}

IncomeHistories ==
  {<<>>} \cup {<<[netIncome |-> n]>> : n \in StatementAmounts}

BalanceHistories ==
  {<<>>} \cup {<<[totalStockholderEquity |-> e]>> : e \in EquityAmounts}
         \cup {<<[totalStockholderEquity |-> e1], [totalStockholderEquity |-> e2]>> :
                 e1 \in EquityAmounts, e2 \in EquityAmounts}

\* entries[i]?.field
FieldAt(entries, i, field) == IF i <= Len(entries) THEN entries[i][field] ELSE Undefined

\* yahoo/fundamentals.ts:218-223, averageEquity
averageEquity(balanceHistory) ==
  LET latest == FieldAt(balanceHistory, 1, "totalStockholderEquity")
      previous == FieldAt(balanceHistory, 2, "totalStockholderEquity") IN
    IF Truthy(latest) /\ Truthy(previous)
      THEN Num((latest.v + previous.v) \div 2)
      ELSE latest

\* yahoo/fundamentals.ts:225-228, roeActual
roeActual(incomeHistory, balanceHistory) ==
  LET netIncome == FieldAt(incomeHistory, 1, "netIncome")
      average == averageEquity(balanceHistory) IN
    IF Truthy(netIncome) /\ average.k = "number" /\ Truthy(average)
      THEN Num((netIncome.v * Scale) \div average.v)
      ELSE Undefined

RoeCalls ==
  [incomeHistory : IncomeHistories, balanceHistory : BalanceHistories,
   roeActual : {Undefined}, done : {FALSE}]

\* computeStatementDerivedMetrics computes roeActual.
ApplyRoe ==
  /\ ~pureCall.done
  /\ pureCall' = [pureCall EXCEPT
                    !.roeActual = roeActual(pureCall.incomeHistory,
                                            pureCall.balanceHistory),
                    !.done = TRUE]
  /\ UNCHANGED <<now, envVars, sessionVars, fundVars, proc, calls, histVars>>

\* ------------------------------------------------------- pure-function specs
\* The state before any call, with the pure function's arguments drawn from calls.
InitPure(callSet) ==
  /\ now = 0
  /\ cacheEnabled = FALSE
  /\ tiingoKey = TRUE
  /\ redisSession = NoEntry
  /\ cachedSession = NoSession
  /\ cachedSessionExpiresAt = 0
  /\ inFlightSession = 0
  /\ refresh = [r \in RefreshIds |-> IdleRefresh]
  /\ nRefresh = 0
  /\ fundamentalsCache = [s \in Symbols |-> NoFundEntry]
  /\ redisFund = [s \in Symbols |-> NoFundEntry]
  /\ proc = [p \in Procs |-> IdleProc]
  /\ calls = 0
  /\ lastIssued = 0
  /\ disturbed = {}
  /\ invCount = 0
  /\ pureCall \in callSet

InitClassify == InitPure(ClassifyCalls)

NextClassify == ApplyClassify

SpecClassify == InitClassify /\ [][NextClassify]_vars

InitRoe == InitPure(RoeCalls)

NextRoe == ApplyRoe

SpecRoe == InitRoe /\ [][NextRoe]_vars

\* ------------------------- computeStatementDerivedMetrics, histories and ratios
\* The value JavaScript calls NaN.
NaN == [k |-> "nan", v |-> 0]

\* Number.isFinite
IsFinite(x) == x.k = "number"

Min(a, b) == IF a <= b THEN a ELSE b
Max(a, b) == IF a >= b THEN a ELSE b
Abs(n) == IF n < 0 THEN 0 - n ELSE n

\* Seconds in the year of yahoo/fundamentals.ts:206, and in a quarter of it.
YearSeconds == 365 * 24 * 60 * 60
QuarterSeconds == YearSeconds \div 4

\* The amounts a statement line takes.
Amounts == {Undefined, Num(0), Num(100), Num(200), Num(0 - 50)}

RECURSIVE SeqsUpTo(_, _)
\* The sequences over S of length n at most.
SeqsUpTo(S, n) ==
  IF n = 0 THEN {<<>>}
  ELSE LET shorter == SeqsUpTo(S, n - 1) IN
         shorter \cup {Append(s, x) : s \in {t \in shorter : Len(t) = n - 1}, x \in S}

\* The raw incomeStatementHistory the upstream sends for the amounts vs, one
\* period every `spacing` seconds, latest period first or oldest period first;
\* the entry at position `undated`, if there is one, carries no endDate.
RawIncome(vs, order, spacing, undated) ==
  [i \in 1 .. Len(vs) |->
     [endDate |-> IF i = undated THEN Undefined
                  ELSE Num((IF order = "desc" THEN Len(vs) - i + 1 ELSE i) * spacing),
      totalRevenue |-> vs[i], netIncome |-> vs[i]]]

\* Index of the first entry with the greatest endDate.
Latest(entries) ==
  CHOOSE i \in 1 .. Len(entries) :
    /\ \A j \in 1 .. Len(entries) : entries[j].endDate.v <= entries[i].endDate.v
    /\ \A j \in 1 .. (i - 1) : entries[j].endDate.v < entries[i].endDate.v

Without(entries, i) == SubSeq(entries, 1, i - 1) \o SubSeq(entries, i + 1, Len(entries))

RECURSIVE SortDescending(_)
\* Array.prototype.sort((a, b) => b.endDate - a.endDate), a stable sort.
SortDescending(entries) ==
  IF entries = <<>> THEN <<>>
  ELSE <<entries[Latest(entries)]>> \o SortDescending(Without(entries, Latest(entries)))

\* yahoo/fundamentals.ts:137-155, extractStatementEntries
extractStatementEntries(rawEntries) ==
  SortDescending(SelectSeq(rawEntries, LAMBDA entry : entry.endDate # Undefined))

\* yahoo/fundamentals.ts:245 and 262: what makes a period's sentinel besides a
\* missing or zero amount.
Sentinel(metric, amount) ==
  IF metric = "totalRevenue" THEN amount.v <= 0 ELSE amount.v = 0

\* yahoo/fundamentals.ts:241-275, the map over incomeHistory.slice(0, 4): the next
\* entry is the next one of the slice.
GrowthEntries(incomeHistory, metric) ==
  LET arr == SubSeq(incomeHistory, 1, Min(4, Len(incomeHistory))) IN
    [index \in 1 .. Len(arr) |->
       LET entry == arr[index]
           next == IF index + 1 <= Len(arr) THEN arr[index + 1][metric] ELSE Undefined IN
         IF ~Truthy(next) \/ ~Truthy(entry[metric]) \/ Sentinel(metric, entry[metric])
           THEN [period |-> entry.endDate.v, value |-> NaN]
           ELSE [period |-> entry.endDate.v,
                 value |-> Num((entry[metric].v * Scale) \div next.v - Scale)]]

\* Mutant: the sentinel entries stay in the history.
growthHistory_Unfiltered(incomeHistory, metric) ==
  IF Len(incomeHistory) >= 2
    THEN [k |-> "array", items |-> GrowthEntries(incomeHistory, metric)]
    ELSE [k |-> "undefined", items |-> <<>>]

\* yahoo/fundamentals.ts:241-287, revenueGrowthHistory and earningsGrowthHistory
\* as returned.
growthHistory(incomeHistory, metric) ==
  IF Len(incomeHistory) >= 2
    THEN [k |-> "array",
          items |-> SelectSeq(GrowthEntries(incomeHistory, metric),
                              LAMBDA entry : IsFinite(entry.value))]
    ELSE [k |-> "undefined", items |-> <<>>]

GrowthCalls ==
  [fn : {"growth"}, metric : {"totalRevenue", "netIncome"}, order : {"desc", "asc"},
   spacing : {YearSeconds}, undated : {0}, amounts : SeqsUpTo(Amounts, MaxPeriods),
   result : {[k |-> "undefined", items |-> <<>>]}, done : {FALSE}]

\* computeStatementDerivedMetrics computes a growth history.
ApplyGrowth ==
  /\ ~pureCall.done
  /\ pureCall.fn = "growth"
  /\ pureCall' =
       [pureCall EXCEPT
          !.result = growthHistory(
                       extractStatementEntries(
                         RawIncome(pureCall.amounts, pureCall.order, pureCall.spacing,
                                   pureCall.undated)),
                       pureCall.metric),
          !.done = TRUE]
  /\ UNCHANGED <<now, envVars, sessionVars, fundVars, proc, calls, histVars>>

\* Fractions of a growth rate are kept in units of 1/RateScale.
RateScale == 100

RECURSIVE Pow(_, _)
Pow(b, n) == IF n = 0 THEN 1 ELSE b * Pow(b, n - 1)

\* The rates Math.pow(latest / oldest, 1 / span) - 1 takes on the amounts drawn.
Rates == (0 - RateScale) .. (20 * RateScale)

\* Math.pow(latest / oldest, 1 / span) - 1 for a whole span, rounded down to a
\* multiple of 1/RateScale.
RootGrowth(latest, oldest, span) ==
  CHOOSE g \in Rates :
    /\ Pow(RateScale + g, span) * oldest <= latest * Pow(RateScale, span)
    /\ latest * Pow(RateScale, span) < Pow(RateScale + g + 1, span) * oldest

\* yahoo/fundamentals.ts:161, Math.max(1, years), for the years of line 206:
\* Math.max(1, seconds) / (365 * 24 * 60 * 60).
Span(seconds) ==
  IF Max(1, seconds) <= YearSeconds THEN 1 ELSE Max(1, seconds) \div YearSeconds

\* yahoo/fundamentals.ts:157-163, cagr, its third argument in seconds.
cagr(latest, oldest, seconds) ==
  IF ~IsFinite(latest) \/ ~IsFinite(oldest) THEN Undefined
  ELSE IF latest.v <= 0 \/ oldest.v <= 0 THEN Undefined
  ELSE Num(RootGrowth(latest.v, oldest.v, Span(seconds)))

\* yahoo/fundamentals.ts:165-171, selectOlderEntry; NoStatement is its undefined.
NoStatement == [endDate |-> Undefined, totalRevenue |-> Undefined, netIncome |-> Undefined]

selectOlderEntry(entries, periods) ==
  IF Len(entries) <= 1 THEN NoStatement
  ELSE entries[Min(Len(entries) - 1, periods) + 1]

\* value ?? NaN
OrNaN(x) == IF x = Undefined \/ x = NullV THEN NaN ELSE x

\* Math.abs
MathAbs(x) == IF x.k = "number" THEN Num(Abs(x.v)) ELSE NaN

\* Mutant: earnings growth is computed on the signed net income.
EndpointValue_Signed(entry, metric) == OrNaN(entry[metric])

\* yahoo/fundamentals.ts:204-205 and 212-213: the endpoint value handed to cagr.
EndpointValue(entry, metric) ==
  IF metric = "netIncome" THEN MathAbs(OrNaN(entry[metric])) ELSE OrNaN(entry[metric])

\* yahoo/fundamentals.ts:200-216, revenueCagr and earningsCagr.
cagr3Y(incomeHistory, metric) ==
  LET olderIncome == selectOlderEntry(incomeHistory, 3) IN
    IF incomeHistory # <<>> /\ olderIncome # NoStatement
      THEN cagr(EndpointValue(incomeHistory[1], metric),
                EndpointValue(olderIncome, metric),
                incomeHistory[1].endDate.v - olderIncome.endDate.v)
      ELSE Undefined

CagrAmounts == {Undefined, Num(0), Num(100), Num(121), Num(0 - 121)}

CagrCalls ==
  [fn : {"cagr"}, metric : {"totalRevenue", "netIncome"}, order : {"desc", "asc"},
   spacing : {QuarterSeconds, YearSeconds}, undated : {0, 1},
   amounts : SeqsUpTo(CagrAmounts, MaxPeriods),
   result : {Undefined}, done : {FALSE}]

\* computeStatementDerivedMetrics computes a compound annual growth rate.
ApplyCagr ==
  /\ ~pureCall.done
  /\ pureCall.fn = "cagr"
  /\ pureCall' =
       [pureCall EXCEPT
          !.result = cagr3Y(
                       extractStatementEntries(
                         RawIncome(pureCall.amounts, pureCall.order, pureCall.spacing,
                                   pureCall.undated)),
                       pureCall.metric),
          !.done = TRUE]
  /\ UNCHANGED <<now, envVars, sessionVars, fundVars, proc, calls, histVars>>

\* yahoo/fundamentals.ts:230-233, debtToEquityActual of the latest balance entry;
\* an absent entry has both fields Undefined.
debtToEquityActual(latestBalance) ==
  IF Truthy(latestBalance.totalLiabilities) /\ Truthy(latestBalance.totalStockholderEquity)
    THEN Num((latestBalance.totalLiabilities.v * Scale)
               \div latestBalance.totalStockholderEquity.v)
    ELSE Undefined

\* yahoo/fundamentals.ts:235-239, freeCashflowPayoutRatio of the latest cash-flow
\* entry; an absent entry has both fields Undefined.
freeCashflowPayoutRatio(latestCashflow) ==
  IF /\ Truthy(latestCashflow.freeCashFlow)
     /\ latestCashflow.freeCashFlow.v > 0
     /\ Truthy(latestCashflow.dividendsPaid)
    THEN Num((Abs(latestCashflow.dividendsPaid.v) * Scale) \div latestCashflow.freeCashFlow.v)
    ELSE Undefined

RatioCalls ==
  [fn : {"ratios"},
   latestBalance : [totalLiabilities : Amounts, totalStockholderEquity : Amounts],
   latestCashflow : [freeCashFlow : Amounts, dividendsPaid : Amounts],
   debtToEquityActual : {Undefined}, freeCashflowPayoutRatio : {Undefined},
   done : {FALSE}]

\* computeStatementDerivedMetrics computes the two balance and cash-flow ratios.
ApplyRatios ==
  /\ ~pureCall.done
  /\ pureCall.fn = "ratios"
  /\ pureCall' =
       [pureCall EXCEPT
          !.debtToEquityActual = debtToEquityActual(pureCall.latestBalance),
          !.freeCashflowPayoutRatio = freeCashflowPayoutRatio(pureCall.latestCashflow),
          !.done = TRUE]
  /\ UNCHANGED <<now, envVars, sessionVars, fundVars, proc, calls, histVars>>

InitStatements == InitPure(GrowthCalls \cup CagrCalls \cup RatioCalls)
NextStatements == ApplyGrowth \/ ApplyCagr \/ ApplyRatios
SpecStatements == InitStatements /\ [][NextStatements]_vars

\* ------------------------------------------------------------ fetchWithTimeout
\* The call sites of fetchWithTimeout in the fundamentals core.
Sites == {"sessionBootstrap", "sessionCrumb", "tiingo", "dividends", "priceHistory",
          "quoteSummary"}

\* The third argument each call site passes: session.ts:68 and 95,
\* services/fundamentals.ts:115, dividends.ts:58, priceHistory.ts:51,
\* yahoo/fundamentals.ts:446.
TimeoutMs(site) == IF site = "quoteSummary" THEN 15000 ELSE 10000

\* The clock of a request advances in steps of StepMs.
StepMs == 5000

\* Names of the errors fetch rejects with on its own.
IoErrors == {"TypeError", "SystemError"}

HttpStatuses == {200, 404, 500}

NoOutcome == [k |-> "pending", status |-> 0, name |-> ""]
ResponseOf(status) == [k |-> "response", status |-> status, name |-> ""]
ErrorOf(name) == [k |-> "error", status |-> 0, name |-> name]

\* Mutant: the AbortError is rethrown as it is.
CatchError_Rethrow(name) == name

\* utils/fetchWithTimeout.ts:35-39, the catch block, by the error's name.
CatchError(name) == IF name = "AbortError" THEN "FetchTimeoutError" ELSE name

FetchCalls ==
  [fn : {"fetch"}, site : Sites, pc : {"idle"}, elapsedMs : {0}, timer : {"none"},
   aborted : {FALSE}, rejection : {""}, result : {NoOutcome}]

\* utils/fetchWithTimeout.ts:26-30: the timer is armed and fetch is called.
StartFetch ==
  /\ pureCall.fn = "fetch" /\ pureCall.pc = "idle"
  /\ pureCall' = [pureCall EXCEPT !.pc = "waiting", !.timer = "armed"]
  /\ UNCHANGED <<now, envVars, sessionVars, fundVars, proc, calls, histVars>>

\* Time passes while the request is pending; a timer that is due fires first.
Elapse ==
  /\ pureCall.fn = "fetch" /\ pureCall.pc = "waiting" /\ ~pureCall.aborted
  /\ pureCall.elapsedMs < TimeoutMs(pureCall.site)
  /\ pureCall' = [pureCall EXCEPT !.elapsedMs = @ + StepMs]
  /\ UNCHANGED <<now, envVars, sessionVars, fundVars, proc, calls, histVars>>

\* utils/fetchWithTimeout.ts:30-34 and 40-42: the response arrives, it is
\* returned and the timer is cleared.
FetchResolves(status) ==
  /\ pureCall.fn = "fetch" /\ pureCall.pc = "waiting" /\ ~pureCall.aborted
  /\ pureCall' = [pureCall EXCEPT !.pc = "done", !.result = ResponseOf(status),
                                  !.timer = "cleared"]
  /\ UNCHANGED <<now, envVars, sessionVars, fundVars, proc, calls, histVars>>

\* utils/fetchWithTimeout.ts:35-42: fetch rejects on its own, the error is
\* rethrown and the timer is cleared.
FetchRejects(name) ==
  /\ pureCall.fn = "fetch" /\ pureCall.pc = "waiting" /\ ~pureCall.aborted
  /\ pureCall' = [pureCall EXCEPT !.pc = "done", !.rejection = name,
                                  !.result = ErrorOf(CatchError(name)),
                                  !.timer = "cleared"]
  /\ UNCHANGED <<now, envVars, sessionVars, fundVars, proc, calls, histVars>>

\* utils/fetchWithTimeout.ts:27: the timer callback aborts the request.
TimerFires ==
  /\ pureCall.fn = "fetch" /\ pureCall.pc = "waiting" /\ pureCall.timer = "armed"
  /\ pureCall.elapsedMs >= TimeoutMs(pureCall.site)
  /\ pureCall' = [pureCall EXCEPT !.aborted = TRUE, !.timer = "fired"]
  /\ UNCHANGED <<now, envVars, sessionVars, fundVars, proc, calls, histVars>>

\* utils/fetchWithTimeout.ts:35-42: the aborted fetch rejects with an AbortError.
AbortRejects ==
  /\ pureCall.fn = "fetch" /\ pureCall.pc = "waiting" /\ pureCall.aborted
  /\ pureCall' = [pureCall EXCEPT !.pc = "done", !.rejection = "AbortError",
                                  !.result = ErrorOf(CatchError("AbortError")),
                                  !.timer = "cleared"]
  /\ UNCHANGED <<now, envVars, sessionVars, fundVars, proc, calls, histVars>>

InitTimeout == InitPure(FetchCalls)

NextTimeout ==
  \/ StartFetch
  \/ Elapse
  \/ \E status \in HttpStatuses : FetchResolves(status)
  \/ \E name \in IoErrors : FetchRejects(name)
  \/ TimerFires
  \/ AbortRejects

SpecTimeout == InitTimeout /\ [][NextTimeout]_vars

\* ------------------------------------------------------------ fetchYahooSession
\* A Set-Cookie line, as its parts between semicolons.
CookieLines == {<<"A=1", " Path=/">>, <<"B=2">>, <<"", " Secure">>}

\* What headers.getSetCookie() returns: no header, or one or two lines.
SetCookieLists ==
  {<<>>} \cup {<<a>> : a \in CookieLines} \cup {<<a, b>> : a \in CookieLines, b \in CookieLines}

RECURSIVE Join(_, _)
\* Array.prototype.join
Join(parts, sep) ==
  IF parts = <<>> THEN <<>>
  ELSE IF Len(parts) = 1 THEN parts
  ELSE <<parts[1], sep>> \o Join(Tail(parts), sep)

\* session.ts:44-47: the first part of every line, the empty ones dropped, joined.
CookiePairs(setCookie) ==
  SelectSeq([i \in 1 .. Len(setCookie) |-> setCookie[i][1]], LAMBDA pair : pair # "")

\* Mutant: the whole Set-Cookie lines are joined.
getSetCookieHeader_WholeLines(setCookie) ==
  Join([i \in 1 .. Len(setCookie) |-> Join(setCookie[i], ";")], "; ")

\* session.ts:23-48, getSetCookieHeader, for a list that is not empty.
getSetCookieHeader(setCookie) == Join(CookiePairs(setCookie), "; ")

\* Response.ok
Ok(status) == status >= 200 /\ status <= 299

\* The bodies the token endpoint answers with.
CrumbBodies == {<<>>, <<" ">>, <<" ", "c", " ">>, <<"c">>}

NoRequest == [url |-> "", cookie |-> <<>>]

RefreshCalls ==
  [fn : {"refresh"}, pc : {"idle"}, fcStatus : {0}, setCookie : {<<>>},
   crumbStatus : {0}, body : {<<>>}, sent : {<<>>},
   session : {[issued |-> FALSE, cookieHeader |-> <<>>, crumb |-> <<>>]},
   thrown : {""}]

\* session.ts:51-69: the bootstrap request is sent.
SendBootstrap ==
  /\ pureCall.fn = "refresh" /\ pureCall.pc = "idle"
  /\ pureCall' = [pureCall EXCEPT !.pc = "bootstrap",
                                  !.sent = Append(@, [url |-> "fc", cookie |-> <<>>])]
  /\ UNCHANGED <<now, envVars, sessionVars, fundVars, proc, calls, histVars>>

\* session.ts:51 and 79: fetchWithTimeout rejects, with an I/O error or a timeout.
RequestFails(name) ==
  /\ pureCall.fn = "refresh" /\ pureCall.pc \in {"bootstrap", "crumb"}
  /\ pureCall' = [pureCall EXCEPT !.pc = "done", !.thrown = name]
  /\ UNCHANGED <<now, envVars, sessionVars, fundVars, proc, calls, histVars>>

\* session.ts:71-96: the bootstrap response arrives; the cookie header is built,
\* the status is tested and the token request is sent with that header.
FcResponds(status, setCookie) ==
  /\ pureCall.fn = "refresh" /\ pureCall.pc = "bootstrap"
  /\ pureCall' =
       IF setCookie = <<>>
         THEN [pureCall EXCEPT !.pc = "done", !.fcStatus = status, !.setCookie = setCookie,
                               !.thrown = "no_cookies"]
       ELSE IF ~Ok(status) /\ status # 404
         THEN [pureCall EXCEPT !.pc = "done", !.fcStatus = status, !.setCookie = setCookie,
                               !.thrown = "initiate_failed"]
       ELSE [pureCall EXCEPT !.pc = "crumb", !.fcStatus = status, !.setCookie = setCookie,
                             !.sent = Append(@, [url |-> "getcrumb",
                                                 cookie |-> getSetCookieHeader(setCookie)])]
  /\ UNCHANGED <<now, envVars, sessionVars, fundVars, proc, calls, histVars>>

\* session.ts:98-114: the token response arrives; its status and its trimmed
\* body are tested and the session is returned.
CrumbResponds(status, body) ==
  /\ pureCall.fn = "refresh" /\ pureCall.pc = "crumb"
  /\ pureCall' =
       IF ~Ok(status)
         THEN [pureCall EXCEPT !.pc = "done", !.crumbStatus = status, !.body = body,
                               !.thrown = "crumb_failed"]
       ELSE IF trim(body) = <<>>
         THEN [pureCall EXCEPT !.pc = "done", !.crumbStatus = status, !.body = body,
                               !.thrown = "empty_crumb"]
       ELSE [pureCall EXCEPT !.pc = "done", !.crumbStatus = status, !.body = body,
                             !.session = [issued |-> TRUE,
                                          cookieHeader |-> getSetCookieHeader(pureCall.setCookie),
                                          crumb |-> trim(body)]]
  /\ UNCHANGED <<now, envVars, sessionVars, fundVars, proc, calls, histVars>>

InitRefresh == InitPure(RefreshCalls)

NextRefresh ==
  \/ SendBootstrap
  \/ \E name \in IoErrors \cup {"FetchTimeoutError"} : RequestFails(name)
  \/ \E status \in HttpStatuses, setCookie \in SetCookieLists : FcResponds(status, setCookie)
  \/ \E status \in HttpStatuses, body \in CrumbBodies : CrumbResponds(status, body)

SpecRefresh == InitRefresh /\ [][NextRefresh]_vars

\* ------------------------------------------------------------- cache outage
\* Mutant: the catch blocks of cache.ts rethrow.
SwallowsError_Rethrow(operation) == FALSE

\* cache.ts:57-60, 81-83 and 98-100: getCached, setCached and deleteCached catch
\* what the Redis client throws, log it, and return.
SwallowsError(operation) == operation \in {"get", "set", "del"}

\* The call of record pr ends with the error a cache function let through.
CacheThrown(pr) ==
  IF pr.op \in {"acquire", "invalidate"}
    THEN [pr EXCEPT !.pc = "done", !.err = TRUE, !.errKind = "cache"]
    ELSE YahooRejected(pr, "cache")

\* History: the Redis command of the call failed.
CacheError(pr) == [pr EXCEPT !.log = Append(@, "cache_error")]

\* redis.get of getCached(SESSION_CACHE_KEY) throws (cache.ts:54-60): getCached
\* returns null and getYahooSession goes on as on a miss (session.ts:124-158).
GetCachedRejects(p) ==
  /\ cacheEnabled
  /\ proc[p].pc = "gs_redis"
  /\ IF SwallowsError("get")
       THEN LookupOrRefresh(p, CacheError(proc[p]))
       ELSE /\ proc' = [proc EXCEPT ![p] = CacheThrown(CacheError(proc[p]))]
            /\ UNCHANGED <<inFlightSession, refresh, nRefresh>>
  /\ UNCHANGED <<now, envVars, redisSession, cachedSession, cachedSessionExpiresAt,
                 fundVars, calls, histVars, pureCall>>

\* redis.set of the then handler's setCached throws (cache.ts:79-83): nothing is
\* stored in Redis and the handler goes on (session.ts:143-155).
SetCachedRejects(r) ==
  /\ cacheEnabled
  /\ refresh[r].st = "storing"
  /\ IF SwallowsError("set")
       THEN /\ Settle(r, refresh[r].session, refresh[r].epoch)
            /\ UNCHANGED redisSession
       ELSE Reject(r)
  /\ UNCHANGED <<now, envVars, nRefresh, fundVars, calls, invCount, pureCall>>

\* redis.set of a forced caller's setCached throws (session.ts:160-169).
ForcedStoreRejects(p) ==
  /\ cacheEnabled
  /\ proc[p].pc = "gs_store"
  /\ IF SwallowsError("set")
       THEN /\ cachedSession' = proc[p].ret
            /\ cachedSessionExpiresAt' = MemoryExpiry
            /\ proc' = [proc EXCEPT ![p] =
                          Returned(CacheError(proc[p]), proc[p].ret, "refresh")]
       ELSE /\ proc' = [proc EXCEPT ![p] = CacheThrown(CacheError(proc[p]))]
            /\ UNCHANGED <<cachedSession, cachedSessionExpiresAt>>
  /\ UNCHANGED <<now, envVars, redisSession, inFlightSession, refresh, nRefresh, fundVars,
                 calls, histVars, pureCall>>

\* redis.del of deleteCached throws (cache.ts:96-100): the in-memory session is
\* cleared all the same (session.ts:175-180) and a fundamentals call retries.
DeleteCachedRejects(p) ==
  /\ cacheEnabled
  /\ proc[p].pc = "inv_redis"
  /\ IF SwallowsError("del")
       THEN /\ ClearMemory
            /\ invCount' = invCount + 1
            /\ IF proc[p].op = "invalidate"
                 THEN /\ proc' = [proc EXCEPT ![p] =
                                    [CacheError(@) EXCEPT !.pc = "done", !.retAt = now]]
                      /\ UNCHANGED <<inFlightSession, refresh, nRefresh>>
                 ELSE RetryAfterInvalidate(p, CacheError(proc[p]), invCount + 1)
       ELSE /\ proc' = [proc EXCEPT ![p] = CacheThrown(CacheError(proc[p]))]
            /\ UNCHANGED <<cachedSession, cachedSessionExpiresAt, invCount,
                           inFlightSession, refresh, nRefresh>>
  /\ UNCHANGED <<now, envVars, redisSession, fundVars, calls, lastIssued, disturbed,
                 pureCall>>

\* redis.get of getCached(cacheKey) throws: fetchYahooFundamentals goes on to its
\* in-memory lookup (yahoo/fundamentals.ts:492-508).
FyRedisRejects(p) ==
  /\ cacheEnabled
  /\ proc[p].pc = "fy_redis"
  /\ IF SwallowsError("get")
       THEN YahooAfterRedis(p, CacheError(proc[p]))
       ELSE /\ proc' = [proc EXCEPT ![p] = CacheThrown(CacheError(proc[p]))]
            /\ UNCHANGED <<inFlightSession, refresh, nRefresh>>
  /\ UNCHANGED <<now, envVars, redisSession, cachedSession, cachedSessionExpiresAt,
                 fundVars, calls, histVars, pureCall>>

\* redis.set of setCached(cacheKey, result) throws: the result is stored in memory
\* and returned (yahoo/fundamentals.ts:512-522 and 529-537).
FyStoreRejects(p) ==
  /\ cacheEnabled
  /\ proc[p].pc = "fy_store"
  /\ IF SwallowsError("set")
       THEN /\ fundamentalsCache' = [fundamentalsCache EXCEPT ![proc[p].sym] =
                                       [data |-> proc[p].data,
                                        expiresAt |-> StoreExpiry(proc[p]),
                                        storedAt |-> NowMs]]
            /\ proc' = [proc EXCEPT ![p] =
                          YahooResolved([CacheError(proc[p]) EXCEPT !.wrote = @ + 1],
                                        proc[p].data)]
       ELSE /\ proc' = [proc EXCEPT ![p] = CacheThrown(CacheError(proc[p]))]
            /\ UNCHANGED fundamentalsCache
  /\ UNCHANGED <<now, envVars, sessionVars, redisFund, calls, histVars, pureCall>>

\* The Redis commands that fail while the cache is out.
OutageReplies ==
  \/ GetCachedRejects("p1")
  \/ \E r \in RefreshIds : SetCachedRejects(r)
  \/ ForcedStoreRejects("p1")
  \/ DeleteCachedRejects("p1")
  \/ FyRedisRejects("p1")
  \/ FyStoreRejects("p1")

\* One task that calls getYahooSession, invalidateYahooSession and
\* fetchYahooFundamentals while any Redis command may fail.
NextOutage ==
  \/ \E f \in BOOLEAN : CallGetYahooSession("p1", f)
  \/ CallInvalidate("p1")
  \/ \E s \in RawSymbols, f \in BOOLEAN : CallFetchYahooFundamentals("p1", s, f)
  \/ YahooReplies
  \/ SessionReplies
  \/ OutageReplies

SpecOutage == InitKeyed /\ [][NextOutage]_vars

\* -------------------------------------------------------------- fetchFromTiingo
\* The three requests of services/fundamentals.ts:311-315.
TiingoRequests == {"metadata", "priceHistory", "fundamentals"}

\* Entries of the price series and of the fundamentals series.
TiingoPriceEntries == {[close |-> Num(100 * Scale)], [close |-> Num(60 * Scale)]}

TiingoFundamentalEntries ==
  {[dividendsPerShare |-> Num(2 * Scale), peRatio |-> Num(20 * Scale)],
   [dividendsPerShare |-> Undefined, peRatio |-> Undefined]}

\* What a request is answered with: the metadata object, or a series.
TiingoPayloads(request) ==
  CASE request = "metadata" -> {<<"meta">>}
    [] request = "priceHistory" -> SeqsUpTo(TiingoPriceEntries, MaxSeries)
    [] OTHER -> SeqsUpTo(TiingoFundamentalEntries, MaxSeries)

\* How fetchTiingoJSON fails (services/fundamentals.ts:108-123).
TiingoRequestFailures == {"http", "timeout"}

Pending == [k |-> "pending", kind |-> "", v |-> <<>>]

\* Array.prototype.at(-1)
AtLast(series) == series[Len(series)]

\* Mutant: the first element of each series is taken.
LatestEntries_First(priceHistory, fundamentalsList) ==
  [dividendsPerShare |-> fundamentalsList[1].dividendsPerShare,
   close |-> priceHistory[1].close,
   peRatio |-> fundamentalsList[1].peRatio]

\* services/fundamentals.ts:234-244: the entries the metrics are derived from.
LatestEntries(priceHistory, fundamentalsList) ==
  [dividendsPerShare |-> AtLast(fundamentalsList).dividendsPerShare,
   close |-> AtLast(priceHistory).close,
   peRatio |-> AtLast(fundamentalsList).peRatio]

\* services/fundamentals.ts:317-325: the three requests have resolved.
AfterPromiseAll(sym, priceHistory, fundamentalsList) ==
  IF priceHistory = <<>> THEN [k |-> "error", error |-> "price_empty", result |-> NoResult]
  ELSE IF fundamentalsList = <<>>
    THEN [k |-> "error", error |-> "fund_empty", result |-> NoResult]
  ELSE [k |-> "ok", error |-> "",
        result |-> buildTiingoResult(sym, LatestEntries(priceHistory, fundamentalsList))]

TiingoCalls ==
  [fn : {"tiingo"}, sym : {<<"A">>}, started : {FALSE},
   replies : {[r \in TiingoRequests |-> Pending]},
   outcome : {[k |-> "pending", error |-> "", result |-> NoResult]}]

\* services/fundamentals.ts:306-315: with the key configured, fetchFromTiingo
\* sends its three requests.
StartFetchFromTiingo ==
  /\ pureCall.fn = "tiingo" /\ ~pureCall.started
  /\ pureCall' = [pureCall EXCEPT !.started = TRUE]
  /\ UNCHANGED <<now, envVars, sessionVars, fundVars, proc, calls, histVars>>

\* A request fails: Promise.all rejects with the first rejection
\* (services/fundamentals.ts:311-315).
TiingoRequestFails(request, kind) ==
  /\ pureCall.fn = "tiingo" /\ pureCall.started
  /\ pureCall.replies[request] = Pending
  /\ pureCall' =
       [pureCall EXCEPT
          !.replies[request] = [k |-> "failed", kind |-> kind, v |-> <<>>],
          !.outcome = IF @.k = "pending"
                        THEN [k |-> "error", error |-> kind, result |-> NoResult]
                        ELSE @]
  /\ UNCHANGED <<now, envVars, sessionVars, fundVars, proc, calls, histVars>>

\* A request is answered: when it is the last of three that resolved, the
\* series are tested and the result is built (services/fundamentals.ts:317-325).
TiingoRequestReturns(request, payload) ==
  /\ pureCall.fn = "tiingo" /\ pureCall.started
  /\ pureCall.replies[request] = Pending
  /\ LET replies == [pureCall.replies EXCEPT
                       ![request] = [k |-> "ok", kind |-> "", v |-> payload]] IN
       pureCall' =
         [pureCall EXCEPT
            !.replies = replies,
            !.outcome = IF @.k = "pending" /\ \A r \in TiingoRequests : replies[r].k = "ok"
                          THEN AfterPromiseAll(pureCall.sym, replies["priceHistory"].v,
                                               replies["fundamentals"].v)
                          ELSE @]
  /\ UNCHANGED <<now, envVars, sessionVars, fundVars, proc, calls, histVars>>

InitTiingo == InitPure(TiingoCalls)

NextTiingo ==
  \/ StartFetchFromTiingo
  \/ \E request \in TiingoRequests, kind \in TiingoRequestFailures :
       TiingoRequestFails(request, kind)
  \/ \E request \in TiingoRequests :
       \E payload \in TiingoPayloads(request) : TiingoRequestReturns(request, payload)

SpecTiingo == InitTiingo /\ [][NextTiingo]_vars

\* ----------------------------------------- deriveTiingoMetrics, approximations
\* Ratios and amounts of a Tiingo fundamentals entry, ratios in units of
\* 1/RateScale.
RatioValues == {Undefined, Num(0), Num(0 - 200), Num(150), Num(5000)}
PegValues == {Undefined, Num(0), Num(0 - 1), Num(300)}
CapValues == {Undefined, Num(0), Num(0 - 100), Num(100), Num(1000)}

\* Mutant: the value is not clamped.
Clamp_Unbounded(lo, x, hi) == x

\* Math.max(lo, Math.min(x, hi)) of services/fundamentals.ts:166, 171-174, 181-187.
Clamp(lo, x, hi) == Max(lo, Min(x, hi))

\* services/fundamentals.ts:164-167, roe, in units of 1/RateScale.
approximateRoe(f) ==
  IF Truthy(f.pbRatio) /\ Truthy(f.peRatio) /\ f.peRatio.v > 0
    THEN Num(Clamp(0, (f.pbRatio.v * 100 * RateScale) \div f.peRatio.v, 100 * RateScale))
    ELSE Undefined

\* services/fundamentals.ts:169-175, growth, in units of 1/RateScale.
approximateGrowth(f) ==
  IF Truthy(f.peRatio) /\ Truthy(f.trailingPEG1Y)
    THEN Num(Clamp(0 - 50 * RateScale,
                   (f.peRatio.v * RateScale) \div Abs(f.trailingPEG1Y.v),
                   100 * RateScale))
    ELSE Undefined

\* services/fundamentals.ts:177-188, debtToEquity, in units of 1/RateScale.
approximateDebtToEquity(f) ==
  IF Truthy(f.marketCap) /\ Truthy(f.enterpriseVal) /\ f.enterpriseVal.v > f.marketCap.v
    THEN Num(Clamp(0, ((f.enterpriseVal.v - f.marketCap.v) * RateScale) \div f.marketCap.v,
                   5 * RateScale))
    ELSE Undefined

ApproximateCalls ==
  [fn : {"approximate"},
   fundamentals : [pbRatio : RatioValues, peRatio : RatioValues, trailingPEG1Y : PegValues,
                   marketCap : CapValues, enterpriseVal : CapValues],
   returnOnEquity : {Undefined}, revenueGrowth : {Undefined}, debtToEquity : {Undefined},
   done : {FALSE}]

\* deriveTiingoMetrics computes the three approximate metrics of an entry.
ApplyApproximate ==
  /\ pureCall.fn = "approximate" /\ ~pureCall.done
  /\ pureCall' =
       [pureCall EXCEPT
          !.returnOnEquity = approximateRoe(pureCall.fundamentals),
          !.revenueGrowth = approximateGrowth(pureCall.fundamentals),
          !.debtToEquity = approximateDebtToEquity(pureCall.fundamentals),
          !.done = TRUE]
  /\ UNCHANGED <<now, envVars, sessionVars, fundVars, proc, calls, histVars>>

InitApproximate == InitPure(ApproximateCalls)
NextApproximate == ApplyApproximate
SpecApproximate == InitApproximate /\ [][NextApproximate]_vars

\* ------------------------------------------------------------- checkRateLimit
\* Values of the RATE_LIMIT_REQUESTS environment variable; "" is unset or empty.
RateLimitEnvValues == {"", "5", "100"}

\* parseInt of the decimal strings in use.
parseInt(s) == CASE s = "5" -> 5 [] s = "60" -> 60 [] s = "100" -> 100

\* RATE_LIMIT_REQUESTS: parseInt(process.env.RATE_LIMIT_REQUESTS || '60', 10).
RATE_LIMIT_REQUESTS(env) == parseInt(IF env = "" THEN "60" ELSE env)

\* The x-forwarded-for header as its comma-separated addresses; <<>> is absent.
ForwardedValues == {<<>>, <<"10.0.0.1">>, <<"10.0.0.2", "10.0.0.1">>}
RealIpValues == {"", "10.0.0.3"}

\* The ip that checkRateLimit hands to the limiter.
ClientIp(forwarded, realIp) ==
  IF forwarded # <<>> THEN forwarded[1] ELSE IF realIp # "" THEN realIp ELSE "127.0.0.1"

\* ratelimitInstance after the module has loaded: set when both Upstash
\* variables are set and the construction did not throw.
ratelimitInstance(c) == c.urlSet /\ c.tokenSet /\ ~c.initThrows

NoLimitResult == [k |-> "pending", success |-> FALSE, limit |-> 0, remaining |-> 0]

\* Mutant: the fallback result denies the request.
FailOpen_Closed(limit) == [k |-> "returned", success |-> FALSE, limit |-> limit, remaining |-> 0]

\* The result returned without the limiter's answer.
FailOpen(limit) == [k |-> "returned", success |-> TRUE, limit |-> limit, remaining |-> limit]

RateLimitCalls ==
  [fn : {"ratelimit"}, urlSet : BOOLEAN, tokenSet : BOOLEAN, initThrows : BOOLEAN,
   env : RateLimitEnvValues, forwarded : ForwardedValues, realIp : RealIpValues,
   pc : {"idle"}, limited : {<<>>}, threw : {FALSE}, result : {NoLimitResult}]

\* checkRateLimit up to the await of ratelimitInstance.limit(ip), or to the
\* return when there is no instance.
StartCheckRateLimit ==
  /\ pureCall.fn = "ratelimit" /\ pureCall.pc = "idle"
  /\ pureCall' =
       IF ~ratelimitInstance(pureCall)
         THEN [pureCall EXCEPT !.pc = "done",
                               !.result = FailOpen(RATE_LIMIT_REQUESTS(pureCall.env))]
         ELSE [pureCall EXCEPT !.pc = "limit",
                               !.limited = <<ClientIp(pureCall.forwarded, pureCall.realIp)>>]
  /\ UNCHANGED <<now, envVars, sessionVars, fundVars, proc, calls, histVars>>

\* The limiter answers; its answer is returned as it is.
LimiterReturns(success, remaining) ==
  /\ pureCall.fn = "ratelimit" /\ pureCall.pc = "limit"
  /\ pureCall' =
       [pureCall EXCEPT !.pc = "done",
          !.result = [k |-> "returned", success |-> success,
                      limit |-> RATE_LIMIT_REQUESTS(pureCall.env), remaining |-> remaining]]
  /\ UNCHANGED <<now, envVars, sessionVars, fundVars, proc, calls, histVars>>

\* The limiter throws; the catch block returns the fallback result.
LimiterThrows ==
  /\ pureCall.fn = "ratelimit" /\ pureCall.pc = "limit"
  /\ pureCall' = [pureCall EXCEPT !.pc = "done", !.threw = TRUE,
                                  !.result = FailOpen(RATE_LIMIT_REQUESTS(pureCall.env))]
  /\ UNCHANGED <<now, envVars, sessionVars, fundVars, proc, calls, histVars>>

InitRateLimit == InitPure(RateLimitCalls)
NextRateLimit ==
  \/ StartCheckRateLimit
  \/ \E success \in BOOLEAN, remaining \in {0, 4} : LimiterReturns(success, remaining)
  \/ LimiterThrows
SpecRateLimit == InitRateLimit /\ [][NextRateLimit]_vars

\* ------------------------------------------- a session call after the fetches
\* A task calls getYahooSession() at a time when no call is in progress in any
\* task (a reply to a setCached sent earlier may still be on its way only
\* inside a call, so every store has been answered).
CallGetYahooSessionLater(p) ==
  /\ \A o \in Procs : proc[o].pc \in {"idle", "done"}
  /\ CallGetYahooSession(p, FALSE)

\* Tasks that call fetchYahooFundamentals, and getYahooSession() between calls.
NextFundThenSession ==
  \/ \E p \in Procs, s \in RawSymbols, f \in BOOLEAN :
       CallFetchYahooFundamentals(p, s, f)
  \/ \E p \in Procs : CallGetYahooSessionLater(p)
  \/ YahooReplies
  \/ SessionReplies

SpecFundThenSession == InitKeyed /\ [][NextFundThenSession]_vars

\* ------------------------------------- mergeSupplementalMetrics, whole records
\* The metrics outside the allow-list that the model carries.
KeysOutside == MetricKeys \ keysToSupplement

\* A NormalizedFundamentals with all its fields (services/fundamentals.ts:6-15);
\* an optional string that is undefined is "".
\* The primary is what buildTiingoResult returns (lines 251-260).
FullPrimaries ==
  { [symbol |-> <<"A">>, companyName |-> "Alpha Inc", currency |-> "USD",
     exchange |-> "NASDAQ", source |-> "tiingo", fetchedAt |-> 1,
     metrics |-> [k \in MetricKeys |-> IF k \in keysToSupplement THEN pv ELSE ov],
     warnings |-> w] :
      <<pv, ov, w>> \in MetricValues \X {Undefined, Num(0), Num(200)}
                        \X {<<>>, <<"Missing Tiingo P/E ratio">>} }

\* The supplement is a normalized Yahoo result (lines 328-369) or any other
\* NormalizedFundamentals.
FullSupplementals ==
  { [symbol |-> <<"A", ".", "B">>, companyName |-> "Alpha Incorporated", currency |-> "EUR",
     exchange |-> "NMS", source |-> "yahoo", fetchedAt |-> 2,
     metrics |-> [k \in MetricKeys |-> IF k \in keysToSupplement THEN sv ELSE sov],
     warnings |-> w] :
      <<sv, sov, w>> \in MetricValues \X {Undefined, Num(300)} \X {<<>>, <<"Stale quote">>} }

MergeFrameCalls ==
  [primary : FullPrimaries, supplemental : FullSupplementals, result : {NoResult},
   done : {FALSE}]

InitMergeFrame == InitPure(MergeFrameCalls)
NextMergeFrame == ApplyMerge
SpecMergeFrame == InitMergeFrame /\ [][NextMergeFrame]_vars

\* ------------------------- fetchYahooDividendHistory, fetchYahooPriceHistory
\* The two chart fetches (yahoo/dividends.ts:30-58, yahoo/priceHistory.ts:24-51).
ChartEndpoints == {"dividends", "priceHistory"}

\* The YahooSession object of session s (session.ts:12-16, 108-114): its cookie
\* header and its crumb are those of the refresh that made it.
SessionObject(s) ==
  [cookieHeader |-> [k |-> "string", v |-> s.id], crumb |-> [k |-> "string", v |-> s.id],
   createdAt |-> Num(s.createdAt)]

\* The value of the expression object.name: undefined when the object has no
\* such property.
Property(object, name) == IF name \in DOMAIN object THEN object[name] ELSE Undefined

NoChartRequest == [sent |-> FALSE, endpoint |-> "", path |-> <<>>, session |-> NoSession,
                   forced |-> FALSE, cookie |-> Undefined]

\* A task calls fetchYahooDividendHistory(sym) or fetchYahooPriceHistory(sym): the
\* code up to the first suspension inside `await getYahooSession()`; only the
\* dividend fetch rejects an empty symbol (yahoo/dividends.ts:36-38).
CallChart(p, endpoint, sym) ==
  /\ proc[p].pc \in {"idle", "done"}
  /\ calls < MaxCalls
  /\ calls' = calls + 1
  /\ LET pr == [IdleProc EXCEPT !.op = "acquire", !.input = sym, !.sym = Normalize(sym),
                                !.stage = endpoint] IN
       IF endpoint = "dividends" /\ IsEmptySymbol(Normalize(sym))
         THEN /\ proc' = [proc EXCEPT ![p] =
                            [pr EXCEPT !.pc = "done", !.err = TRUE, !.errKind = "argument"]]
              /\ UNCHANGED <<inFlightSession, refresh, nRefresh>>
         ELSE EnterGetYahooSession(p, pr, FALSE, invCount)
  /\ pureCall' = [pureCall EXCEPT !.requests[p] = NoChartRequest]
  /\ UNCHANGED <<now, envVars, redisSession, cachedSession, cachedSessionExpiresAt,
                 fundVars, histVars>>

\* getYahooSession() has returned to a chart fetch, which sends its request with
\* the header Cookie: session.cookie (yahoo/dividends.ts:43-58,
\* yahoo/priceHistory.ts:37-51).
SendChartRequest(p) ==
  /\ proc[p].op = "acquire" /\ proc[p].pc = "done" /\ ~proc[p].err
  /\ proc[p].stage \in ChartEndpoints
  /\ ~pureCall.requests[p].sent
  /\ pureCall' = [pureCall EXCEPT !.requests[p] =
                    [sent |-> TRUE, endpoint |-> proc[p].stage,
                     path |-> YahooSymbol(proc[p].sym), session |-> proc[p].ret,
                     forced |-> proc[p].force,
                     cookie |-> Property(SessionObject(proc[p].ret), "cookie")]]
  /\ proc' = [proc EXCEPT ![p] = [@ EXCEPT !.pc = "chart_fetch",
                                           !.log = Append(@, "request")]]
  /\ UNCHANGED <<now, envVars, sessionVars, fundVars, calls, histVars>>

\* The chart endpoint answers, or the request fails.
ChartResponds(p, ok) ==
  /\ proc[p].pc = "chart_fetch"
  /\ proc' = [proc EXCEPT ![p] =
                [@ EXCEPT !.pc = "done", !.err = ~ok,
                          !.errKind = IF ok THEN "none" ELSE "other",
                          !.log = Append(@, IF ok THEN "ok" ELSE "error")]]
  /\ UNCHANGED <<now, envVars, sessionVars, fundVars, calls, histVars, pureCall>>

InitChart ==
  /\ now = 0
  /\ cacheEnabled \in BOOLEAN
  /\ tiingoKey = TRUE
  /\ redisSession = NoEntry
  /\ cachedSession = NoSession
  /\ cachedSessionExpiresAt = 0
  /\ inFlightSession = 0
  /\ refresh = [r \in RefreshIds |-> IdleRefresh]
  /\ nRefresh = 0
  /\ fundamentalsCache = [s \in Symbols |-> NoFundEntry]
  /\ redisFund = [s \in Symbols |-> NoFundEntry]
  /\ proc = [p \in Procs |-> IdleProc]
  /\ calls = 0
  /\ lastIssued = 0
  /\ disturbed = {}
  /\ invCount = 0
  /\ pureCall = [fn |-> "chart", requests |-> [p \in Procs |-> NoChartRequest]]

NextChart ==
  \/ \E p \in Procs, endpoint \in ChartEndpoints, s \in RawSymbols : CallChart(p, endpoint, s)
  \/ \E p \in Procs : SendChartRequest(p)
  \/ \E p \in Procs, ok \in BOOLEAN : ChartResponds(p, ok)
  \/ \E p \in Procs : GetCachedResolves(p)
  \/ \E r \in RefreshIds, ok \in BOOLEAN : BootstrapResponds(r, ok)
  \/ \E r \in RefreshIds, ok \in BOOLEAN : TokenResponds(r, ok)
  \/ \E r \in RefreshIds : SetCachedResolves(r)

SpecChart == InitChart /\ [][NextChart]_vars

\* ---------------------------------------------------------------- termination
\* The symbols of the calls: one that names a stock and a blank one.
LiveSymbols == {<<"A", ".", "B">>, <<" ", " ">>}

\* A task calls one of fetchFundamentalsWithFallback, fetchYahooFundamentals and
\* getYahooSession; MaxLiveCalls calls are made in all.
LiveCall(p) ==
  /\ calls < MaxLiveCalls
  /\ \/ \E s \in LiveSymbols, f \in BOOLEAN : CallFetchFundamentalsWithFallback(p, s, f)
     \/ \E s \in LiveSymbols, f \in BOOLEAN : CallFetchYahooFundamentals(p, s, f)
     \/ \E f \in BOOLEAN : CallGetYahooSession(p, f)

\* The request or cache operation that task p is waiting for completes or fails;
\* a successful answer carries one payload, what it holds makes no difference to
\* what the call does next.
ReplyTo(p) ==
  \/ GetCachedResolves(p)
  \/ ForcedStoreResolves(p)
  \/ DeleteCachedResolves(p)
  \/ FyRedisResolves(p)
  \/ QsResponds(p, "ok", 1)
  \/ QsResponds(p, "invalid", 0)
  \/ QsResponds(p, "other", 0)
  \/ FyStoreResolves(p)
  \/ \E kind \in TiingoFailures : TiingoRejects(p, kind)
  \/ \E e \in TiingoEntries : Truthy(e.dividendsPerShare) /\ TiingoResolves(p, e)

\* The request or cache operation that refresh r is waiting for completes or fails.
RefreshReply(r) ==
  \/ \E ok \in BOOLEAN : BootstrapResponds(r, ok)
  \/ \E ok \in BOOLEAN : TokenResponds(r, ok)
  \/ SetCachedResolves(r)

NextLive ==
  \/ \E p \in Procs : LiveCall(p)
  \/ \E p \in Procs : ReplyTo(p)
  \/ \E r \in RefreshIds : RefreshReply(r)

\* Every request and every cache operation that is waited for is answered in the
\* end: fetchWithTimeout settles every request within its timeout
\* (utils/fetchWithTimeout.ts:21-43).
Answered ==
  /\ \A p \in Procs : WF_vars(ReplyTo(p))
  /\ \A r \in RefreshIds : WF_vars(RefreshReply(r))

SpecLive == Init /\ [][NextLive]_vars /\ Answered

\* ------------------------------------------------------------------ claims
InProgress == {r \in RefreshIds : refresh[r].st \in {"bootstrap", "token", "storing"}}
Acquired(p) == proc[p].op = "acquire" /\ proc[p].pc = "done" /\ ~proc[p].err

\* C1. Single-flight: at most one refresh is in progress at any time, it is the
\* one the in-flight handle names, all callers suspended on a refresh are
\* suspended on that same refresh, and a refresh sends exactly one bootstrap
\* request and at most one token request (exactly one once it has a session).
C1_SingleFlight ==
  /\ Cardinality(InProgress) <= 1
  /\ InProgress = IF inFlightSession = 0 THEN {} ELSE {inFlightSession}
  /\ \A p, q \in Procs :
       proc[p].pc = "gs_wait" /\ proc[q].pc = "gs_wait" =>
         /\ proc[p].joined = proc[q].joined
         /\ proc[p].joined = inFlightSession
  /\ \A r \in RefreshIds :
       /\ refresh[r].st # "idle" => refresh[r].boot = 1 /\ refresh[r].tok <= 1
       /\ refresh[r].st \in {"storing", "resolved"} => refresh[r].tok = 1

\* Two callers are suspended on one refresh whose token request is out.
C1_Witness ==
  \E p, q \in Procs :
    /\ p # q
    /\ proc[p].pc = "gs_wait" /\ proc[q].pc = "gs_wait"
    /\ proc[p].joined = proc[q].joined
    /\ refresh[proc[p].joined].st = "token"

\* C2. Every caller that awaited refresh r has r's outcome: the session r made
\* when r resolved, the failure when r rejected; none is still suspended on a
\* settled refresh.
C2_SameOutcome ==
  \A p \in Procs :
    LET r == proc[p].joined IN
      r # 0 =>
        /\ refresh[r].st \in {"bootstrap", "token", "storing"} => proc[p].pc = "gs_wait"
        /\ refresh[r].st = "resolved" =>
             /\ proc[p].pc \in {"gs_store", "done"}
             /\ proc[p].ret = refresh[r].session
             /\ ~proc[p].err
        /\ refresh[r].st = "rejected" =>
             /\ proc[p].pc = "done"
             /\ proc[p].err
             /\ proc[p].ret = NoSession

\* Two callers that awaited the same refresh both hold its session.
C2_Witness ==
  \E p, q \in Procs :
    /\ p # q
    /\ proc[p].joined # 0 /\ proc[p].joined = proc[q].joined
    /\ Acquired(p) /\ Acquired(q)
    /\ proc[p].ret = proc[q].ret /\ proc[p].ret # NoSession

\* Two callers that awaited the same refresh both got its failure.
C2_WitnessFailure ==
  \E p, q \in Procs :
    /\ p # q
    /\ proc[p].joined # 0 /\ proc[p].joined = proc[q].joined
    /\ proc[p].err /\ proc[q].err

\* C5 (as claimed). No getYahooSession call is served, from the in-process or
\* the external cache, a session whose createdAt + 15 minutes is at or before
\* the time of the return.
C5_NeverPastTTL ==
  \A p \in Procs :
    Acquired(p) /\ proc[p].from \in {"memory", "redis"} =>
      proc[p].retAt * TickMs < proc[p].ret.createdAt + SESSION_TTL_MS

C7_InvalidateForcesRefresh ==
  \A p \in Procs :
    Acquired(p) /\ proc[p].from \in {"memory", "redis"} =>
      refresh[proc[p].ret.id].epoch >= proc[p].epoch

\* C8 (as claimed). When a refresh fails, no session is cached afterwards: the
\* next non-forced call would find neither cache holding a session to return.
C8_FailureLeavesNothingCached ==
  [][\A r \in RefreshIds :
       refresh[r].st \in {"bootstrap", "token"} /\ refresh'[r].st = "rejected" =>
         ~MemoryHit' /\ GetCachedSession' = NoSession]_vars

\* --------------------------------------------------------------- C3, C4
Count(log, ev) == Cardinality({i \in DOMAIN log : log[i] = ev})

\* What a non-forced fetchYahooFundamentals call does when its first request is
\* rejected and its retry succeeds.
RetryTrace == <<"acquire", "request", "reject", "invalidate", "acquire_forced",
                "request", "ok">>

RejectedThenOk(p) ==
  /\ proc[p].op = "yahoo" /\ proc[p].pc = "done" /\ ~proc[p].optForce
  /\ Len(proc[p].resp) = 2
  /\ proc[p].resp[1].o = "invalid" /\ proc[p].resp[2].o = "ok"

\* C3. A non-forced fetchYahooFundamentals call whose first request gets an
\* invalid-session rejection and whose retry succeeds returns the retry's result;
\* it has sent exactly two requests, invalidated once and asked for one forced
\* session, in the order reject, invalidate, forced acquire, second request.
C3_RetrySucceeds ==
  \A p \in Procs :
    RejectedThenOk(p) =>
      /\ ~proc[p].err
      /\ proc[p].data = proc[p].resp[2].d
      /\ proc[p].log = RetryTrace

\* A call was rejected with one payload cached by nobody, retried and returned
\* the retry's payload.
C3_Witness ==
  \E p \in Procs :
    /\ RejectedThenOk(p)
    /\ proc[p].data = 2 /\ proc[p].attempt = 2
    /\ Count(proc[p].log, "acquire_forced") = 1

\* C4. No fetchYahooFundamentals call sends more than two requests; a call whose
\* two requests are both rejected as invalid session has raised
\* InvalidYahooSessionError right after the second and has written nothing to
\* the fundamentals cache.
C4_BoundedRetry ==
  \A p \in Procs :
    /\ Count(proc[p].log, "request") <= 2
    /\ Len(proc[p].resp) <= 2
    /\ proc[p].op = "yahoo" /\ Len(proc[p].resp) = 2
         /\ proc[p].resp[1].o = "invalid" /\ proc[p].resp[2].o = "invalid" =>
           /\ proc[p].pc = "done"
           /\ proc[p].err /\ proc[p].errKind = "invalid"
           /\ proc[p].wrote = 0

\* A call had both of its requests rejected.
C4_Witness ==
  \E p \in Procs :
    /\ proc[p].op = "yahoo" /\ proc[p].pc = "done"
    /\ Len(proc[p].resp) = 2
    /\ proc[p].resp[1].o = "invalid" /\ proc[p].resp[2].o = "invalid"
    /\ Count(proc[p].log, "request") = 2

\* ------------------------------------------------------------------- C9
TiingoSucceeded(p) ==
  proc[p].op = "fallback" /\ proc[p].pc = "done" /\ proc[p].tiingo # NoResult

\* C9 (as claimed). When the Tiingo fetch succeeds with dividendYield present
\* and non-zero, fetchFundamentalsWithFallback returns with source "tiingo"
\* and makes no call to fetchYahooFundamentals.
C9_NoSupplementCall ==
  \A p \in Procs :
    TiingoSucceeded(p) /\ Truthy(proc[p].tiingo.metrics["dividendYield"]) =>
      /\ proc[p].result.source = "tiingo"
      /\ Count(proc[p].log, "yahoo_call") = 0

\* C9 (amended). The Tiingo result never carries payoutRatio, so a successful
\* Tiingo fetch, whatever its dividendYield, is followed by exactly one call to
\* fetchYahooFundamentals; the call returns without error with source "tiingo",
\* the Tiingo dividendYield kept when it is non-zero.
C9_AlwaysSupplements ==
  \A p \in Procs :
    TiingoSucceeded(p) =>
      /\ ~proc[p].err
      /\ proc[p].result.source = "tiingo"
      /\ Count(proc[p].log, "yahoo_call") = 1
      /\ Truthy(proc[p].tiingo.metrics["dividendYield"]) =>
           proc[p].result.metrics["dividendYield"]
             = proc[p].tiingo.metrics["dividendYield"]

\* Tiingo succeeded with a non-zero dividendYield, the supplement was fetched and
\* gave the payoutRatio.
C9_Witness ==
  \E p \in Procs :
    /\ TiingoSucceeded(p)
    /\ Truthy(proc[p].tiingo.metrics["dividendYield"])
    /\ Count(proc[p].log, "yahoo_call") = 1
    /\ proc[p].result.source = "tiingo"
    /\ proc[p].result.metrics["payoutRatio"] = Num(5500)

\* ------------------------------------------------------------------ C10
Present(x) == x \notin {Undefined, NullV}

\* C10. For every key of the allow-list the merged value is the primary value
\* when that is present and non-zero, and the supplemental value when the
\* primary value is missing, null or zero and the supplemental value is present.
C10_MergePrecedence ==
  pureCall.done =>
    \A k \in keysToSupplement :
      LET pv == pureCall.primary.metrics[k]
          sv == pureCall.supplemental.metrics[k]
          mv == pureCall.result.metrics[k] IN
        /\ Present(pv) /\ pv # Num(0) => mv = pv
        /\ ~(Present(pv) /\ pv # Num(0)) /\ Present(sv) => mv = sv

\* A zero dividendYield was filled from the supplement while a non-zero
\* payoutRatio of the primary was kept.
C10_Witness ==
  /\ pureCall.done
  /\ pureCall.primary.metrics["dividendYield"] = Num(0)
  /\ pureCall.supplemental.metrics["dividendYield"] = Num(300)
  /\ pureCall.result.metrics["dividendYield"] = Num(300)

C10_WitnessKept ==
  /\ pureCall.done
  /\ pureCall.primary.metrics["dividendYield"] = Num(200)
  /\ pureCall.supplemental.metrics["dividendYield"] = Num(300)
  /\ pureCall.result.metrics["dividendYield"] = Num(200)

\* ------------------------------------------------------------ C11 .. C14
FallbackDone(p) == proc[p].op = "fallback" /\ proc[p].pc = "done"

\* C11. The source of a result of fetchFundamentalsWithFallback is "tiingo"
\* whenever the Tiingo fetch succeeded, whether the supplement was merged or
\* failed, and "yahoo" exactly when the Tiingo fetch failed and the Yahoo fetch
\* succeeded.
C11_SourceIsPrimary ==
  \A p \in Procs :
    FallbackDone(p) =>
      /\ proc[p].tiingo # NoResult => ~proc[p].err /\ proc[p].result.source = "tiingo"
      /\ proc[p].result.source = "yahoo" <=>
           proc[p].tiingo = NoResult /\ proc[p].errors # <<>> /\ proc[p].yahooErr = "none"
      /\ ~proc[p].err => proc[p].result.source \in {"tiingo", "yahoo"}

\* A result merged from a successful supplement carries the source "tiingo".
C11_Witness ==
  \E p \in Procs :
    /\ FallbackDone(p) /\ proc[p].tiingo # NoResult /\ proc[p].yahooErr = "none"
    /\ proc[p].result.metrics["payoutRatio"] = Num(5500)
    /\ proc[p].result.metrics # proc[p].tiingo.metrics
    /\ proc[p].result.source = "tiingo"

\* C12. When the Tiingo fetch succeeded and the supplemental Yahoo fetch fails,
\* in whichever way, the call raises nothing and returns the Tiingo result
\* unchanged in every field.
C12_SupplementFailureSwallowed ==
  \A p \in Procs :
    FallbackDone(p) /\ proc[p].tiingo # NoResult /\ proc[p].yahooErr # "none" =>
      /\ ~proc[p].err
      /\ proc[p].errKind = "none"
      /\ proc[p].result = proc[p].tiingo

\* The supplement failed with the session rejected twice, and the call returned
\* the Tiingo result.
C12_Witness ==
  \E p \in Procs :
    /\ FallbackDone(p) /\ proc[p].tiingo # NoResult
    /\ proc[p].yahooErr = "invalid" /\ Len(proc[p].resp) = 2
    /\ ~proc[p].err /\ proc[p].result = proc[p].tiingo

C12_WitnessSession ==
  \E p \in Procs :
    /\ FallbackDone(p) /\ proc[p].tiingo # NoResult
    /\ proc[p].yahooErr = "session" /\ ~proc[p].err

\* The kinds of failure of the Tiingo fetch.
CommercialFailures == {"config"} \cup TiingoFailures

\* C13. After every kind of failure of the Tiingo fetch the call asks Yahoo, and
\* when Yahoo succeeds it returns the normalized Yahoo result, source "yahoo",
\* without error.
C13_PrimaryFallback ==
  \A p \in Procs :
    /\ proc[p].op = "fallback" /\ proc[p].errors # <<>> =>
         /\ proc[p].errors[1] \in CommercialFailures
         /\ proc[p].stage = "fallback"
         /\ Count(proc[p].log, "yahoo_call") = 1
    /\ FallbackDone(p) /\ proc[p].errors # <<>> /\ proc[p].yahooErr = "none" =>
         /\ ~proc[p].err
         /\ proc[p].result.source = "yahoo"
         /\ proc[p].result =
              normalizeYahooResult(YahooFundamentals(proc[p].sym, proc[p].data))

\* Each kind of Tiingo failure was followed by a successful Yahoo fallback.
C13_Witness ==
  \E p \in Procs :
    /\ FallbackDone(p) /\ proc[p].errors = <<"price_empty">>
    /\ proc[p].result.source = "yahoo" /\ ~proc[p].err

C13_WitnessConfig ==
  \E p \in Procs :
    /\ FallbackDone(p) /\ proc[p].errors = <<"config">>
    /\ proc[p].result.source = "yahoo" /\ ~proc[p].err

\* C14. A call with a non-empty symbol raises an error exactly when the Tiingo
\* fetch and the Yahoo fetch both failed, and the error is then the
\* AggregateError; one failed provider alone never fails the call.
C14_ErrorOnlyWhenBothFail ==
  \A p \in Procs :
    FallbackDone(p) /\ trim(proc[p].input) # <<>> =>
      /\ proc[p].err <=> (proc[p].tiingo = NoResult /\ proc[p].yahooErr # "none")
      /\ proc[p].err => /\ proc[p].errKind = "aggregate"
                        /\ Len(proc[p].errors) = 2
                        /\ proc[p].errors[1] \in CommercialFailures
                        /\ proc[p].errors[2] = proc[p].yahooErr

\* Both providers failed and the call raised the aggregate of the two errors.
C14_Witness ==
  \E p \in Procs :
    /\ FallbackDone(p) /\ proc[p].err /\ proc[p].errKind = "aggregate"
    /\ proc[p].errors = <<"timeout", "other">>

\* ------------------------------------------------------------ C15, C16
\* The trimmed, upper-cased form of each input symbol, dots kept, and the form
\* the Yahoo request path carries.
ExpectedSymbol(input) ==
  CASE input = <<"A", ".", "B">> -> <<"A", ".", "B">>
    [] input = <<" ", "a", ".", "b", " ">> -> <<"A", ".", "B">>
    [] OTHER -> <<>>

ExpectedPath(input) ==
  CASE input = <<"A", ".", "B">> -> <<"A", "-", "B">>
    [] input = <<" ", "a", ".", "b", " ">> -> <<"A", "-", "B">>
    [] OTHER -> <<>>

\* C15 (as claimed). Whichever provider served the data, the symbol of the
\* result of fetchFundamentalsWithFallback is the trimmed, upper-cased input
\* with its dots, while every Yahoo request path carries the symbol with each
\* dot replaced by a hyphen.
C15_SymbolPreserved ==
  \A p \in Procs :
    /\ proc[p].path # <<>> => proc[p].path = ExpectedPath(proc[p].input)
    /\ FallbackDone(p) /\ ~proc[p].err =>
         proc[p].result.symbol = ExpectedSymbol(proc[p].input)

\* A blank symbol.
Blank == <<" ", " ">>

\* C16. A call of fetchFundamentalsWithFallback with a symbol that is empty
\* after trimming has failed with the argument error and has done nothing else:
\* no Tiingo call, no Yahoo call, no session, no cache operation, no fallback.
C16_EmptySymbolRejected ==
  \A p \in Procs :
    proc[p].op = "fallback" /\ proc[p].input = Blank =>
      /\ proc[p].pc = "done" /\ proc[p].err /\ proc[p].errKind = "argument"
      /\ proc[p].log = <<>> /\ proc[p].resp = <<>> /\ proc[p].errors = <<>>
      /\ proc[p].stage = "none" /\ proc[p].joined = 0 /\ ~proc[p].started
      /\ proc[p].wrote = 0

\* The first call of a run had a blank symbol: it failed and every cache and the
\* session manager are as they were at the start.
C16_Witness ==
  \E p \in Procs :
    /\ proc[p].op = "fallback" /\ proc[p].input = Blank
    /\ proc[p].err /\ proc[p].errKind = "argument"
    /\ calls = 1 /\ nRefresh = 0 /\ inFlightSession = 0
    /\ cachedSession = NoSession /\ redisSession = NoEntry
    /\ \A s \in Symbols : fundamentalsCache[s] = NoFundEntry /\ redisFund[s] = NoFundEntry

\* ------------------------------------------------------------ C17, C18
\* C17 (as claimed), first part. A non-forced fetchYahooFundamentals call that
\* found, at its lookup, an entry for its symbol stored less than 12 hours ago
\* returns that entry, with no session acquired and no request sent.
C17_FreshEntryServed ==
  \A p \in Procs :
    proc[p].op = "yahoo" /\ ~proc[p].optForce /\ proc[p].fresh =>
      /\ proc[p].pc = "done" /\ ~proc[p].err
      /\ proc[p].log = <<"hit">>

\* C17, second part. An entry is never returned at or after 12 hours from the
\* time it was stored.
C17_NeverServedExpired ==
  \A p \in Procs :
    proc[p].hitSrc # "none" =>
      proc[p].hitAt * TickMs < proc[p].hitStored + FUNDAMENTALS_TTL_MS

\* C17, third part. A forced call never returns a cached entry: it goes for a
\* session and, unless the session fails, sends a request.
C17_ForcedBypassesCache ==
  \A p \in Procs :
    proc[p].op = "yahoo" /\ proc[p].optForce /\ proc[p].sym # <<>> =>
      /\ proc[p].hitSrc = "none"
      /\ Count(proc[p].log, "hit") = 0
      /\ proc[p].log # <<>> /\ proc[p].log[1] = "acquire_forced"
      /\ proc[p].pc = "done" /\ proc[p].yahooErr # "session" =>
           Count(proc[p].log, "request") = 1

\* C17 (as claimed), the three parts together.
C17_CacheLookup ==
  /\ C17_FreshEntryServed
  /\ C17_NeverServedExpired
  /\ C17_ForcedBypassesCache

\* The steps of a fetchYahooFundamentals call of task p: it ends with a result it
\* fetched, it ends with an error, it looks its symbol up in the caches.
FetchSucceeds(p) ==
  /\ proc[p].pc # "done" /\ proc'[p].pc = "done" /\ proc'[p].op = "yahoo"
  /\ ~proc'[p].err /\ proc'[p].hitSrc = "none"

FetchFails(p) ==
  /\ proc'[p] # proc[p] /\ proc'[p].pc = "done" /\ proc'[p].op = "yahoo"
  /\ proc'[p].err

LooksUp(p) ==
  /\ proc'[p].op = "yahoo" /\ ~proc'[p].optForce
  /\ IF cacheEnabled
       THEN proc[p].pc = "fy_redis" /\ proc'[p].pc # "fy_redis"
       ELSE calls' = calls + 1 /\ proc'[p] # proc[p]

\* The entry a lookup of key finds: the Redis one when the cache is enabled and
\* holds one, else the in-memory one, data 0 when there is none.
Unexpired(key) ==
  IF cacheEnabled /\ GetCachedFund(key) # 0 THEN GetCachedFund(key)
  ELSE IF FundMemoryHit(key) THEN fundamentalsCache[key].data
  ELSE 0

InvalidSessionDescriptions ==
  { <<"Invalid", "Crumb">>, <<"invalid", "cookie">>, <<"INVALID", "COOKIE">> }

\* C19. A response is taken for a rejected session exactly when its status is
\* 401 or 403, or its body is JSON whose quoteSummary error description matches
\* "invalid crumb" or "invalid cookie" in any case, whatever the status; any
\* other non-2xx response and any other body that is no JSON is another error.
C19_InvalidSessionClassification ==
  pureCall.done =>
    LET status == pureCall.status
        body == pureCall.body
        rejected == \/ status \in {401, 403}
                    \/ body.json /\ body.hasError
                         /\ body.description \in InvalidSessionDescriptions IN
      /\ pureCall.outcome = "invalid" <=> rejected
      /\ ~rejected /\ (status < 200 \/ status > 299 \/ ~body.json) =>
           pureCall.outcome = "other"

\* A 500 response whose body carries "INVALID COOKIE" is a rejected session, as is
\* a 403 whose body is no JSON.
C19_Witness ==
  /\ pureCall.done /\ pureCall.outcome = "invalid"
  /\ pureCall.status = 500 /\ pureCall.body.description = <<"INVALID", "COOKIE">>

C19_WitnessStatus ==
  /\ pureCall.done /\ pureCall.outcome = "invalid"
  /\ pureCall.status = 403 /\ ~pureCall.body.json

\* ------------------------------------------------------------------ C20
\* The denominator the claim names: the average of the latest and the prior
\* equity, the latest alone when there is one equity period only.
ClaimedEquity(balanceHistory) ==
  LET latest == FieldAt(balanceHistory, 1, "totalStockholderEquity")
      previous == FieldAt(balanceHistory, 2, "totalStockholderEquity") IN
    IF latest = Undefined THEN Undefined
    ELSE IF previous = Undefined THEN latest
    ELSE Num((latest.v + previous.v) \div 2)

\* C20 (as claimed). roeActual is the latest net income divided by the average
\* of the latest and the prior equity (the latest alone with one period); it is
\* undefined exactly when the net income or the equity is missing or the
\* denominator is zero; a net income of 0 gives 0.
C20_RoeActual ==
  pureCall.done =>
    LET netIncome == FieldAt(pureCall.incomeHistory, 1, "netIncome")
        equity == ClaimedEquity(pureCall.balanceHistory) IN
      IF netIncome = Undefined \/ equity = Undefined \/ equity = Num(0)
        THEN pureCall.roeActual = Undefined
        ELSE pureCall.roeActual = Num((netIncome.v * Scale) \div equity.v)

\* C20, for a net income other than 0 and equities other than 0 the code
\* computes the claimed quotient.
C20_RoeActualNonZero ==
  pureCall.done =>
    LET netIncome == FieldAt(pureCall.incomeHistory, 1, "netIncome")
        latest == FieldAt(pureCall.balanceHistory, 1, "totalStockholderEquity")
        previous == FieldAt(pureCall.balanceHistory, 2, "totalStockholderEquity")
        equity == ClaimedEquity(pureCall.balanceHistory) IN
      netIncome # Num(0) /\ latest # Num(0) /\ previous # Num(0) =>
        IF netIncome = Undefined \/ equity = Undefined \/ equity = Num(0)
          THEN pureCall.roeActual = Undefined
          ELSE pureCall.roeActual = Num((netIncome.v * Scale) \div equity.v)

\* ------------------------------------------------------------------ C21
Reverse(s) == [i \in 1 .. Len(s) |-> s[Len(s) - i + 1]]

\* The dated periods of a call, latest period first, as the claims count them.
ClaimedPeriods(call) ==
  LET dated == SelectSeq(RawIncome(call.amounts, call.order, call.spacing, call.undated),
                         LAMBDA entry : entry.endDate # Undefined) IN
    IF call.order = "desc" THEN dated ELSE Reverse(dated)

\* An amount that is present and not zero.
PresentNonZero(amount) == amount.k = "number" /\ amount.v # 0

\* The positions, among the most recent four periods, whose own amount and whose
\* next-older period's amount are both present and not zero.
CompletePeriods(periods, metric) ==
  {i \in 1 .. Min(4, Len(periods)) :
     /\ i + 1 <= Len(periods)
     /\ PresentNonZero(periods[i][metric])
     /\ PresentNonZero(periods[i + 1][metric])}

\* C21 (as claimed). A growth history has one entry for every one of the most
\* recent four periods whose own amount and whose next-older period's amount
\* are present and not zero, so five complete periods give four entries; it
\* never has more than four entries; it is undefined when there is no income
\* statement data.
C21_OneEntryPerCompletePeriod ==
  (pureCall.done /\ pureCall.fn = "growth") =>
    LET periods == ClaimedPeriods(pureCall) IN
      /\ Len(pureCall.result.items) <= 4
      /\ Len(pureCall.result.items) = Cardinality(CompletePeriods(periods, pureCall.metric))
      /\ periods = <<>> => pureCall.result.k = "undefined"

\* ------------------------------------------------------------------ C22
\* C22 (as claimed). A growth history is ordered oldest period first, and each
\* entry is labelled with a period and holds that period's amount divided by
\* the next-older period's amount, minus 1.
C22_OldestFirst ==
  (pureCall.done /\ pureCall.fn = "growth") =>
    LET periods == ClaimedPeriods(pureCall)
        items == pureCall.result.items IN
      /\ \A i, j \in 1 .. Len(items) : i < j => items[i].period < items[j].period
      /\ \A n \in 1 .. Len(items) :
           \E i \in 1 .. (Len(periods) - 1) :
             /\ items[n].period = periods[i].endDate.v
             /\ PresentNonZero(periods[i + 1][pureCall.metric])
             /\ items[n].value =
                  Num((periods[i][pureCall.metric].v * Scale)
                        \div periods[i + 1][pureCall.metric].v - Scale)

\* ------------------------------------------------------------------ C23
\* The older endpoint the claim names, for two periods at least.
ClaimedOlder(periods) == periods[Min(Len(periods) - 1, 3) + 1]

\* The amount of an endpoint: the absolute value for net income.
ClaimedAmount(entry, metric) ==
  IF metric = "netIncome" /\ entry[metric].k = "number"
    THEN Num(Abs(entry[metric].v)) ELSE entry[metric]

\* Both endpoints of a call carry an amount above zero.
EndpointsPositive(call) ==
  LET periods == ClaimedPeriods(call) IN
    /\ Len(periods) >= 2
    /\ ClaimedAmount(periods[1], call.metric).k = "number"
    /\ ClaimedAmount(periods[1], call.metric).v > 0
    /\ ClaimedAmount(ClaimedOlder(periods), call.metric).k = "number"
    /\ ClaimedAmount(ClaimedOlder(periods), call.metric).v > 0

\* C23. The endpoints of a CAGR are the period with the greatest end date and
\* the period at index min(length - 1, 3) of the history sorted latest first;
\* the span is at least one year, so endpoints at most one year apart give
\* latest / older - 1 (100 then 121 give 0.21) and endpoints n whole years apart
\* give the n-th root of latest / older, minus 1; net income enters by its
\* absolute value.
C23_CagrEndpointsAndSpan ==
  (pureCall.done /\ pureCall.fn = "cagr" /\ EndpointsPositive(pureCall)) =>
    LET periods == ClaimedPeriods(pureCall)
        latest == ClaimedAmount(periods[1], pureCall.metric).v
        older == ClaimedAmount(ClaimedOlder(periods), pureCall.metric).v
        seconds == periods[1].endDate.v - ClaimedOlder(periods).endDate.v
        years == seconds \div YearSeconds
        rate == pureCall.result.v IN
      /\ pureCall.result.k = "number"
      /\ \A entry \in {periods[i] : i \in 1 .. Len(periods)} :
           entry.endDate.v <= periods[1].endDate.v
      /\ IF seconds <= YearSeconds
           THEN rate = (latest * RateScale) \div older - RateScale
           ELSE /\ Pow(RateScale + rate, years) * older <= latest * Pow(RateScale, years)
                /\ latest * Pow(RateScale, years) < Pow(RateScale + rate + 1, years) * older

\* C23 witnesses: revenue 100 then 121 one year apart gives 0.21; five yearly
\* periods of net income, the endpoints -121 and 100 three years apart.
C23_Witness ==
  /\ pureCall.done /\ pureCall.fn = "cagr" /\ pureCall.metric = "totalRevenue"
  /\ pureCall.spacing = YearSeconds /\ pureCall.undated = 0 /\ pureCall.order = "asc"
  /\ pureCall.amounts = <<Num(100), Num(121)>>
  /\ pureCall.result = Num(21)

C23_WitnessEarnings ==
  /\ pureCall.done /\ pureCall.fn = "cagr" /\ pureCall.metric = "netIncome"
  /\ pureCall.spacing = YearSeconds /\ pureCall.undated = 0 /\ pureCall.order = "asc"
  /\ pureCall.amounts = <<Num(121), Num(100), Num(0), Undefined, Num(0 - 121)>>
  /\ pureCall.result = Num(6)

\* ------------------------------------------------------------------ C24
\* A value that is a finite number or undefined, never NaN.
FiniteOrUndefined(x) == x.k \in {"number", "undefined"}

C24_WitnessUndated ==
  /\ pureCall.done /\ pureCall.fn = "cagr" /\ pureCall.undated = 1
  /\ pureCall.amounts = <<Num(121), Num(100)>>
  /\ pureCall.result = Undefined

C24_WitnessSentinel ==
  /\ pureCall.done /\ pureCall.fn = "growth" /\ pureCall.order = "desc"
  /\ pureCall.amounts = <<Num(200), Num(100), Num(0)>>
  /\ Len(pureCall.result.items) = 1

\* ------------------------------------------------------------------ C25
\* C25 (as claimed). freeCashflowPayoutRatio is |dividendsPaid| / freeCashFlow
\* exactly when the free cash flow is above zero and dividendsPaid is present,
\* a dividendsPaid of 0 giving 0; it is undefined otherwise.
C25_PayoutRatio ==
  (pureCall.done /\ pureCall.fn = "ratios") =>
    LET freeCashFlow == pureCall.latestCashflow.freeCashFlow
        dividendsPaid == pureCall.latestCashflow.dividendsPaid IN
      IF freeCashFlow.k = "number" /\ freeCashFlow.v > 0 /\ dividendsPaid.k = "number"
        THEN pureCall.freeCashflowPayoutRatio =
               Num((Abs(dividendsPaid.v) * Scale) \div freeCashFlow.v)
        ELSE pureCall.freeCashflowPayoutRatio = Undefined

\* ------------------------------------------------------------------ C26
\* C26 (as claimed). debtToEquityActual is totalLiabilities divided by
\* totalStockholderEquity of the latest balance entry whenever both are
\* present, liabilities of 0 giving 0, and undefined when either is missing.
C26_DebtToEquity ==
  (pureCall.done /\ pureCall.fn = "ratios") =>
    LET liabilities == pureCall.latestBalance.totalLiabilities
        equity == pureCall.latestBalance.totalStockholderEquity IN
      /\ (liabilities = Undefined \/ equity = Undefined) =>
           pureCall.debtToEquityActual = Undefined
      /\ (liabilities.k = "number" /\ equity.k = "number" /\ equity.v # 0) =>
           pureCall.debtToEquityActual = Num((liabilities.v * Scale) \div equity.v)

\* ------------------------------------------------------------------ C27
RECURSIVE ClaimedCookieHeader(_)
\* The name=value pairs of the Set-Cookie lines, joined with "; ".
ClaimedCookieHeader(lines) ==
  IF lines = <<>> THEN <<>>
  ELSE LET rest == ClaimedCookieHeader(Tail(lines)) IN
         IF Head(lines)[1] = "" THEN rest
         ELSE IF rest = <<>> THEN <<Head(lines)[1]>>
         ELSE <<Head(lines)[1], "; ">> \o rest

C27_WitnessNoCookies ==
  /\ pureCall.fn = "refresh" /\ pureCall.pc = "done"
  /\ pureCall.thrown = "no_cookies" /\ Len(pureCall.sent) = 1

\* ------------------------------------------------------------------ C28
\* The timeout the claim gives each call site, in milliseconds.
ClaimedTimeoutMs(site) ==
  CASE site \in {"sessionBootstrap", "sessionCrumb"} -> 10 * 1000
    [] site = "tiingo" -> 10 * 1000
    [] site \in {"dividends", "priceHistory"} -> 10 * 1000
    [] site = "quoteSummary" -> 15 * 1000

\* C28. A request through fetchWithTimeout ends with its response, with the
\* error fetch rejected with, unchanged, or, once its timeout has gone by
\* without a response (10 s, 15 s for the scraped fundamentals call), with an
\* abort and a FetchTimeoutError, which is no I/O error; it never stays pending
\* past its timeout, and its timer is cleared however it ends.
C28_FetchOutcomes ==
  pureCall.fn = "fetch" =>
    /\ pureCall.pc = "waiting" => pureCall.elapsedMs <= ClaimedTimeoutMs(pureCall.site)
    /\ pureCall.aborted => pureCall.elapsedMs = ClaimedTimeoutMs(pureCall.site)
    /\ pureCall.pc = "done" =>
         /\ pureCall.timer = "cleared"
         /\ pureCall.result.k \in {"response", "error"}
         /\ pureCall.result.k = "response" => ~pureCall.aborted /\ pureCall.rejection = ""
         /\ pureCall.result.k = "error" =>
              IF pureCall.aborted
                THEN pureCall.result.name = "FetchTimeoutError"
                ELSE pureCall.result.name = pureCall.rejection
                       /\ pureCall.rejection \in IoErrors
    /\ "FetchTimeoutError" \notin IoErrors

\* C28 witnesses: the 15 s call timed out; a call failed with fetch's own error.
C28_Witness ==
  /\ pureCall.fn = "fetch" /\ pureCall.pc = "done" /\ pureCall.site = "quoteSummary"
  /\ pureCall.elapsedMs = 15000 /\ pureCall.aborted
  /\ pureCall.result = ErrorOf("FetchTimeoutError") /\ pureCall.timer = "cleared"

C28_WitnessIoError ==
  /\ pureCall.fn = "fetch" /\ pureCall.pc = "done" /\ pureCall.site = "tiingo"
  /\ pureCall.elapsedMs = 5000 /\ ~pureCall.aborted
  /\ pureCall.result = ErrorOf("TypeError")

\* ------------------------------------------------------------------ C29
\* The event is in the log.
Logged(log, event) == \E i \in 1 .. Len(log) : log[i] = event

\* The failures the upstream of a call accounts for.
UpstreamFailures == {"argument", "invalid", "other", "session"}

\* C29. No call ends with an error of the cache: a session acquire fails only
\* when the refresh it awaited failed, a fundamentals fetch only for its
\* argument, its session or its upstream, and an invalidate never; after a
\* failed Redis command nothing is served from Redis; with no cache configured
\* nothing is asked of Redis and nothing is stored there.
C29_CacheNeverFailsACall ==
  /\ \A p \in Procs :
       /\ proc[p].errKind # "cache"
       /\ proc[p].pc = "done" =>
            /\ proc[p].op = "invalidate" => ~proc[p].err
            /\ (proc[p].op = "acquire" /\ proc[p].err) =>
                 proc[p].joined # 0 /\ refresh[proc[p].joined].st = "rejected"
            /\ (proc[p].op = "yahoo" /\ proc[p].err) => proc[p].errKind \in UpstreamFailures
            /\ (proc[p].op = "acquire" /\ ~proc[p].err /\ Logged(proc[p].log, "cache_error")) =>
                 proc[p].ret # NoSession /\ proc[p].from \in {"memory", "refresh"}
       /\ ~cacheEnabled =>
            /\ proc[p].pc \notin {"gs_redis", "gs_store", "inv_redis", "fy_redis", "fy_store"}
            /\ ~Logged(proc[p].log, "cache_error")
  /\ ~cacheEnabled =>
       /\ redisSession = NoEntry
       /\ \A s \in Symbols : redisFund[s] = NoFundEntry

\* C29 witnesses: a fundamentals fetch whose Redis lookups and whose Redis store
\* all failed returned the payload of its request; a session acquire whose
\* lookup failed returned the session of a refresh that Redis does not hold.
C29_Witness ==
  /\ cacheEnabled
  /\ proc["p1"].op = "yahoo" /\ proc["p1"].pc = "done" /\ ~proc["p1"].err
  /\ proc["p1"].log = <<"cache_error", "acquire", "cache_error", "request", "ok",
                        "cache_error">>
  /\ proc["p1"].data = 1
  /\ redisSession = NoEntry

C29_WitnessAcquire ==
  /\ cacheEnabled
  /\ proc["p1"].op = "acquire" /\ proc["p1"].pc = "done" /\ ~proc["p1"].err
  /\ Logged(proc["p1"].log, "cache_error") /\ proc["p1"].from = "refresh"
  /\ redisSession = NoEntry /\ invCount = 0

\* ------------------------------------------------------------------ C30
\* C30. Without a Tiingo key no call ever has the three Tiingo requests in
\* flight; fetchFromTiingo is called once per call, fails with the
\* configuration error, gives no Tiingo result, and is not called again.
C30_ConfigurationErrorFirst ==
  ~tiingoKey =>
    \A p \in Procs :
      /\ proc[p].pc # "tiingo"
      /\ Logged(proc[p].log, "tiingo_call") =>
           /\ Count(proc[p].log, "tiingo_call") = 1
           /\ proc[p].errors # <<>> /\ proc[p].errors[1] = "config"
           /\ proc[p].tiingo = NoResult

\* C30 witness: without a key, the configuration error and the error of the
\* Yahoo fallback ended a call.
C30_Witness ==
  /\ ~tiingoKey
  /\ \E p \in Procs :
       /\ FallbackDone(p) /\ proc[p].err
       /\ proc[p].errors = <<"config", "other">>
       /\ Count(proc[p].log, "tiingo_call") = 1

\* ------------------------------------------------------------------ C31
\* C31. fetchFromTiingo returns a result only when its three requests succeeded
\* and both series have an entry, and the result is built from the last entry
\* of each series; when the three requests succeeded and the price series or
\* the fundamentals series is empty it fails with the error of the empty
\* series.
C31_ResultFromLastEntries ==
  pureCall.fn = "tiingo" =>
    LET replies == pureCall.replies
        priceHistory == replies["priceHistory"].v
        fundamentalsList == replies["fundamentals"].v
        allOk == \A r \in TiingoRequests : replies[r].k = "ok" IN
      /\ pureCall.outcome.k = "ok" =>
           /\ allOk /\ priceHistory # <<>> /\ fundamentalsList # <<>>
           /\ pureCall.outcome.result =
                buildTiingoResult(pureCall.sym,
                  [dividendsPerShare |-> fundamentalsList[Len(fundamentalsList)].dividendsPerShare,
                   close |-> priceHistory[Len(priceHistory)].close,
                   peRatio |-> fundamentalsList[Len(fundamentalsList)].peRatio])
      /\ (allOk /\ (priceHistory = <<>> \/ fundamentalsList = <<>>)) =>
           /\ pureCall.outcome.k = "error"
           /\ pureCall.outcome.error \in {"price_empty", "fund_empty"}
      /\ (\E r \in TiingoRequests : replies[r].k = "failed") => pureCall.outcome.k = "error"

\* C31 witnesses: a result from the second entries of two series of two; the
\* failure on an empty fundamentals series.
C31_Witness ==
  /\ pureCall.fn = "tiingo" /\ pureCall.outcome.k = "ok"
  /\ pureCall.replies["priceHistory"].v = <<[close |-> Num(100 * Scale)], [close |-> Num(60 * Scale)]>>
  /\ Len(pureCall.replies["fundamentals"].v) = 2
  /\ pureCall.outcome.result.metrics["currentPrice"] = Num(60 * Scale)

C31_WitnessEmpty ==
  /\ pureCall.fn = "tiingo" /\ pureCall.outcome.k = "error"
  /\ pureCall.outcome.error = "fund_empty"
  /\ Len(pureCall.replies["priceHistory"].v) = 1

\* ------------------------------------------------------------------ C32
\* A metric that is defined lies between lo and hi, given in whole units.
Within(x, lo, hi) == x # Undefined => (x.k = "number" /\ lo * RateScale <= x.v /\ x.v <= hi * RateScale)

\* C32. The approximate metrics of every Tiingo fundamentals entry are inside
\* their ranges when they are defined: returnOnEquity in [0, 100],
\* revenueGrowth in [-50, 100], debtToEquity in [0, 5].
C32_ClampRanges ==
  (pureCall.fn = "approximate" /\ pureCall.done) =>
    /\ Within(pureCall.returnOnEquity, 0, 100)
    /\ Within(pureCall.revenueGrowth, 0 - 50, 100)
    /\ Within(pureCall.debtToEquity, 0, 5)

\* C32 witnesses: the three metrics at a bound that the raw value is beyond;
\* a growth below zero that stays as it is.
C32_Witness ==
  /\ pureCall.fn = "approximate" /\ pureCall.done
  /\ pureCall.fundamentals.pbRatio = Num(5000) /\ pureCall.fundamentals.peRatio = Num(150)
  /\ pureCall.returnOnEquity = Num(100 * RateScale)
  /\ pureCall.fundamentals.trailingPEG1Y = Num(0 - 1)
  /\ pureCall.revenueGrowth = Num(100 * RateScale)
  /\ pureCall.fundamentals.marketCap = Num(100) /\ pureCall.fundamentals.enterpriseVal = Num(1000)
  /\ pureCall.debtToEquity = Num(5 * RateScale)

C32_WitnessLower ==
  /\ pureCall.fn = "approximate" /\ pureCall.done
  /\ pureCall.fundamentals.peRatio = Num(0 - 200)
  /\ pureCall.fundamentals.trailingPEG1Y = Num(0 - 1)
  /\ pureCall.revenueGrowth = Num(0 - 50 * RateScale)
  /\ pureCall.fundamentals.marketCap = Num(0 - 100) /\ pureCall.fundamentals.enterpriseVal = Num(100)
  /\ pureCall.debtToEquity = Num(0)

\* ------------------------------------------------------------------ C33
\* C33. checkRateLimit fails open: every call returns a result; without a
\* limiter instance, or when the limiter throws, the result has success true
\* and limit and remaining both equal to the configured request limit (60 when
\* the variable is unset); without an instance the limiter is never called.
C33_FailsOpen ==
  pureCall.fn = "ratelimit" =>
    /\ pureCall.pc = "done" => pureCall.result.k = "returned"
    /\ (pureCall.pc = "done" /\ (~ratelimitInstance(pureCall) \/ pureCall.threw)) =>
         /\ pureCall.result.success
         /\ pureCall.result.limit = RATE_LIMIT_REQUESTS(pureCall.env)
         /\ pureCall.result.remaining = RATE_LIMIT_REQUESTS(pureCall.env)
         /\ pureCall.env = "" => pureCall.result.limit = 60
    /\ ~ratelimitInstance(pureCall) => pureCall.limited = <<>>

\* C33 witnesses: the limiter was called and threw, with the default limit;
\* a call without an instance, with a configured limit.
C33_Witness ==
  /\ pureCall.fn = "ratelimit" /\ pureCall.pc = "done" /\ pureCall.threw
  /\ pureCall.limited = <<"10.0.0.2">> /\ pureCall.env = ""
  /\ pureCall.result = [k |-> "returned", success |-> TRUE, limit |-> 60, remaining |-> 60]

C33_WitnessUnconfigured ==
  /\ pureCall.fn = "ratelimit" /\ pureCall.pc = "done"
  /\ pureCall.urlSet /\ ~pureCall.tokenSet /\ pureCall.env = "5"
  /\ pureCall.result = [k |-> "returned", success |-> TRUE, limit |-> 5, remaining |-> 5]

\* ------------------------------------------------------------------ C34
\* The first request of the call was rejected as an invalid session and the call
\* is not forced.
RetryCase(p) ==
  /\ ~proc[p].optForce
  /\ proc[p].resp # <<>> /\ proc[p].resp[1].o = "invalid"

\* The kind of the error that ended a call which made no retry.
CauseKind(p) ==
  IF proc[p].resp # <<>> THEN proc[p].resp[1].o
  ELSE IF IsEmptySymbol(proc[p].sym) THEN "argument" ELSE "session"

\* C34. fetchYahooFundamentals sends a second request, or invalidates the
\* session, only when its first request ended with InvalidYahooSessionError and
\* the call was not forced. A call that failed in any other way (a forced call
\* rejected as invalid, another upstream failure, a session that could not be
\* acquired) has sent at most one request, has not invalidated the session and
\* has raised the error of its cause.
C34_RetryOnlyOnInvalidSession ==
  \A p \in Procs :
    proc[p].op = "yahoo" =>
      /\ (Count(proc[p].log, "request") > 1 \/ Count(proc[p].log, "invalidate") > 0
            \/ Count(proc[p].log, "acquire_forced") > (IF proc[p].optForce THEN 1 ELSE 0))
           => RetryCase(p)
      /\ (proc[p].pc = "done" /\ proc[p].err /\ ~RetryCase(p)) =>
           /\ Count(proc[p].log, "request") <= 1
           /\ Count(proc[p].log, "invalidate") = 0
           /\ proc[p].errKind = CauseKind(p)

\* C34 witnesses: a forced call rejected as invalid; a call whose one request
\* failed otherwise; a call whose session could not be acquired.
C34_Witness ==
  \E p \in Procs :
    /\ proc[p].op = "yahoo" /\ proc[p].pc = "done" /\ proc[p].err
    /\ proc[p].optForce /\ Len(proc[p].resp) = 1 /\ proc[p].resp[1].o = "invalid"
    /\ proc[p].errKind = "invalid" /\ Count(proc[p].log, "invalidate") = 0

C34_WitnessOther ==
  \E p \in Procs :
    /\ proc[p].op = "yahoo" /\ proc[p].pc = "done" /\ proc[p].err
    /\ ~proc[p].optForce /\ Len(proc[p].resp) = 1 /\ proc[p].resp[1].o = "other"
    /\ proc[p].errKind = "other" /\ Count(proc[p].log, "request") = 1

C34_WitnessSession ==
  \E p \in Procs :
    /\ proc[p].op = "yahoo" /\ proc[p].pc = "done" /\ proc[p].err
    /\ proc[p].resp = <<>> /\ proc[p].errKind = "session"
    /\ Count(proc[p].log, "request") = 0

\* ------------------------------------------------------------------ C35
\* Refreshes run one at a time, so sessions are issued in the order of their
\* ids: the session a call's first request was rejected with is older than the
\* session its retry got.
OlderThanRetry(p, s) == s # NoSession /\ s.id < proc[p].ret.id

\* The getYahooSession call of q was made after the fetchYahooFundamentals call
\* of p had returned: q entered after the invalidate of p, at a time when no
\* call was in progress.
CalledAfter(q, p) == proc[q].op = "acquire" /\ proc[q].epoch >= proc[p].epoch

\* C35 (as claimed). Once a fetchYahooFundamentals call has invalidated its
\* rejected session and its retry has succeeded with a newer session, a
\* non-forced getYahooSession call made later returns no session older than the
\* retry's, whatever a concurrent forced caller stores and whenever.
C35_RejectedSessionNeverServedAgain ==
  \A p \in Procs, q \in Procs :
    /\ RejectedThenOk(p) /\ ~proc[p].err
    /\ CalledAfter(q, p) /\ proc[q].pc = "done" /\ ~proc[q].force /\ ~proc[q].err
    => ~OlderThanRetry(p, proc[q].ret)

\* ------------------------------------------------------------------ C36
\* The fields of a result that the merge has no business with.
SameIdentity(a, b) ==
  /\ a.symbol = b.symbol /\ a.companyName = b.companyName /\ a.currency = b.currency
  /\ a.exchange = b.exchange /\ a.fetchedAt = b.fetchedAt /\ a.source = b.source

MergeFrameHolds ==
  pureCall.done =>
    /\ \A k \in KeysOutside : pureCall.result.metrics[k] = pureCall.primary.metrics[k]
    /\ SameIdentity(pureCall.result, pureCall.primary)
    /\ pureCall.result.warnings = pureCall.primary.warnings \o pureCall.supplemental.warnings
    /\ DOMAIN pureCall.result = DOMAIN pureCall.primary

\* C36. mergeSupplementalMetrics changes nothing but allow-list metrics: the
\* metrics outside the allow-list and symbol, companyName, currency, exchange
\* and fetchedAt of the merged result are the primary's, its warnings are the
\* primary's followed by the supplement's, and the two arguments are what they
\* were before the merge.
C36_MergeFrame ==
  /\ []MergeFrameHolds
  /\ [][/\ pureCall'.primary = pureCall.primary
        /\ pureCall'.supplemental = pureCall.supplemental]_vars

\* C36 witness: an absent metric outside the allow-list stays absent though the
\* supplement has it, while an allow-list metric is filled; both arguments
\* carry a warning.
C36_Witness ==
  /\ pureCall.done
  /\ pureCall.primary.metrics["marketCap"] = Undefined
  /\ pureCall.supplemental.metrics["marketCap"] = Num(300)
  /\ pureCall.result.metrics["marketCap"] = Undefined
  /\ pureCall.primary.metrics["payoutRatio"] = Num(0)
  /\ pureCall.result.metrics["payoutRatio"] = Num(200)
  /\ pureCall.result.warnings = <<"Missing Tiingo P/E ratio", "Stale quote">>
  /\ pureCall.result.companyName = "Alpha Inc"
  /\ pureCall.supplemental.companyName = "Alpha Incorporated"

\* ------------------------------------------------------------------ C37
\* The kinds of failure of a fetchYahooFundamentals call for a non-empty symbol.
ScrapedFailures == {"invalid", "other", "session"}

\* C37. A fetchFundamentalsWithFallback call for a non-empty symbol calls
\* fetchFromTiingo exactly once and fetchYahooFundamentals at most once. When it
\* fails, the error is the AggregateError of exactly two errors, the Tiingo
\* failure first and the Yahoo failure second: the branch that rethrows a single
\* error is never taken.
C37_AggregateOfTwo ==
  \A p \in Procs :
    proc[p].op = "fallback" /\ ~IsEmptySymbol(proc[p].sym) =>
      /\ Count(proc[p].log, "tiingo_call") = 1
      /\ Count(proc[p].log, "yahoo_call") <= 1
      /\ proc[p].pc = "done" /\ proc[p].err =>
           /\ ~OnlyOneError(proc[p].errors)
           /\ proc[p].errKind = "aggregate"
           /\ Len(proc[p].errors) = 2
           /\ proc[p].errors[1] \in CommercialFailures
           /\ proc[p].errors[2] \in ScrapedFailures
           /\ Count(proc[p].log, "yahoo_call") = 1

\* C37 witness: without a Tiingo key, the Yahoo fallback was rejected twice as an
\* invalid session and the call raised the aggregate of the two errors.
C37_Witness ==
  \E p \in Procs :
    /\ FallbackDone(p) /\ proc[p].err /\ proc[p].errKind = "aggregate"
    /\ proc[p].errors = <<"config", "invalid">>
    /\ Count(proc[p].log, "tiingo_call") = 1 /\ Count(proc[p].log, "yahoo_call") = 1
    /\ Count(proc[p].log, "request") = 2

\* ------------------------------------------------------------------ C38
\* C38 (as claimed). A dividend-history or price-history fetch sends its request
\* only after a non-forced getYahooSession call has returned a session to it,
\* and the Cookie header of the request is the cookie header of that session.
C38_ChartRequestCarriesSessionCookie ==
  \A p \in Procs :
    LET request == pureCall.requests[p] IN
      request.sent =>
        /\ request.session # NoSession /\ ~request.forced
        /\ Count(proc[p].log, "acquire") = 1
        /\ proc[p].log[1] = "acquire"
        /\ request.cookie = SessionObject(request.session).cookieHeader

\* ------------------------------------------------------------------ C39
Settled(r) == refresh[r].st \in {"resolved", "rejected"}

\* The handle names no settled refresh, every caller that waits is waiting for
\* the refresh the handle names, and the outcome of a call that awaited a
\* refresh is the outcome of that refresh and of no earlier one.
HandleNeverStale ==
  /\ inFlightSession # 0 =>
       refresh[inFlightSession].st \in {"bootstrap", "token", "storing"}
  /\ \A p \in Procs :
       /\ proc[p].pc = "gs_wait" =>
            proc[p].joined # 0 /\ proc[p].joined = inFlightSession
       /\ (proc[p].op = "acquire" /\ proc[p].pc = "done" /\ proc[p].joined # 0) =>
            /\ Settled(proc[p].joined)
            /\ proc[p].err <=> refresh[proc[p].joined].st = "rejected"
            /\ ~proc[p].err => proc[p].ret = refresh[proc[p].joined].session

\* C39. The in-flight handle is cleared in the step in which a refresh settles,
\* by success or by failure, so a failed refresh is never joined afterwards: a
\* getYahooSession call that needs a refresh after one has failed awaits a
\* refresh started after the failure, and returns that refresh's session when
\* the upstream answers it.
C39_FailedRefreshNotSticky ==
  /\ []HandleNeverStale
  /\ [][\A r \in RefreshIds : (~Settled(r) /\ Settled(r)') => inFlightSession' = 0]_vars

\* C39 witness: refresh 1 failed, and a call made afterwards started refresh 2
\* and returned its session.
C39_Witness ==
  \E p \in Procs :
    /\ refresh[1].st = "rejected" /\ refresh[2].st = "resolved"
    /\ proc[p].op = "acquire" /\ proc[p].pc = "done" /\ ~proc[p].err
    /\ proc[p].started /\ proc[p].joined = 2
    /\ proc[p].ret = refresh[2].session
    /\ inFlightSession = 0

\* ------------------------------------------------------------------ C40
Running(p) == proc[p].pc \notin {"idle", "done"}

\* C40. When every request and cache operation that is waited for is answered,
\* every call of fetchFundamentalsWithFallback, fetchYahooFundamentals and
\* getYahooSession that has started returns or raises in the end, whatever the
\* other task does meanwhile.
C40_EveryCallReturns ==
  \A p \in Procs : Running(p) ~> (proc[p].pc = "done")

\* C40 witness: a fetchFundamentalsWithFallback call returned after it had joined
\* the refresh another task's call had started and after its own retry.
C40_Witness ==
  \E p \in Procs, q \in Procs :
    /\ p # q
    /\ FallbackDone(p) /\ ~proc[p].err
    /\ Count(proc[p].log, "request") = 2 /\ Count(proc[p].log, "invalidate") = 1
    /\ proc[q].pc = "done" /\ proc[q].started /\ proc[q].op \in {"yahoo", "acquire"}
    /\ nRefresh >= 2

====
